---------------------------- MODULE Spec2Model ----------------------------
(***************************************************************************)
(* Model of the droidrun-portal scripts: the shared utilities of           *)
(* scripts/droidutils.py (bounds, filters, tree traversal, index lookup,   *)
(* text search, occlusion-aware tap point selection) and the poll loop of  *)
(* scripts/droid-wait.py.                                                  *)
(*                                                                         *)
(* Representation.                                                         *)
(*  - A Python str is a sequence of tokens (Seq of TLA+ strings); "" is    *)
(*    <<>>.  Tokens are words that hold no "." and the token "." itself,   *)
(*    so str.rsplit(".", 1) is a split at the last "." token.              *)
(*  - A bounds string "l, t, r, b" is the sequence of its comma-separated  *)
(*    integer fields <<l, t, r, b>>; the empty string is <<>>.             *)
(*  - A node is a Python dict: a function from its keys to values; a key   *)
(*    the dict does not hold is outside its DOMAIN (dict.get's default).   *)
(*  - Optional values: None is <<>>, a value v is <<v>>.                   *)
(***************************************************************************)
EXTENDS Integers, Sequences, FiniteSets, TLC

VARIABLES
    pc,        \* control position of the running call or command
    tree,      \* the snapshot forest handed to the call (list of root nodes)
    element,   \* the node handed to the call
    args,      \* the remaining arguments of the call
    ret,       \* the value the call returned
    blockers,  \* get_tap_point: its local list of blocker rectangles
    now,       \* droid-wait: time.time(), in seconds
    start,     \* droid-wait: start
    elapsed,   \* droid-wait: elapsed, as computed at the top of the iteration
    attempt,   \* droid-wait: attempt
    output,    \* droid-wait: what the last query attempt produced
    exit,      \* droid-wait: how the process ended ("" while it runs)
    log        \* droid-wait: history of the run (elapsed at each attempt, matches)

vars == <<pc, tree, element, args, ret, blockers, now, start, elapsed, attempt, output, exit, log>>

waitVars == <<now, start, elapsed, attempt, output, exit, log>>

-----------------------------------------------------------------------------
(* Bounds of the model *)

MaxNodes == 3

\* the rectangles tried on find_clear_point reach 40 * MaxCoord
MaxCoord == 2

\* longest blocker list handed to find_clear_point
MaxBlockers == 2

\* largest --timeout handed to droid-wait, in seconds
MaxTimeout == 3

\* longest a completed adb call or an overslept sleep takes beyond its minimum
MaxDelay == 1

\* largest x and y coordinate of the rectangles tried on is_visible
MaxX == 11

MaxY == 2

-----------------------------------------------------------------------------
(* Python values *)

None == <<>>

Some(v) == <<v>>

\* dict.get(key, default)
Get(node, key, default) == IF key \in DOMAIN node THEN node[key] ELSE default

\* dict.get(key): None when the key is absent
GetOpt(node, key) == IF key \in DOMAIN node THEN Some(node[key]) ELSE None

Max(a, b) == IF a >= b THEN a ELSE b

Min(a, b) == IF a <= b THEN a ELSE b

\* Python's // (floor division) by 2, for negative sums too
FloorDiv2(n) == IF n >= 0 THEN n \div 2 ELSE -((1 - n) \div 2)

\* str.lower(), token by token
LowerToken(c) ==
    CASE c = "OK" -> "ok"
      [] c = "Login" -> "login"
      [] c = "Button" -> "button"
      [] c = "Submit" -> "submit"
      [] OTHER -> c

lower(s) == [i \in 1..Len(s) |-> LowerToken(s[i])]

\* needle in hay (substring containment)
Contains(hay, needle) ==
    \E k \in 0..(Len(hay) - Len(needle)) :
        \A i \in 1..Len(needle) : hay[k + i] = needle[i]

\* s.startswith(p)
StartsWith(s, p) ==
    /\ Len(p) <= Len(s)
    /\ \A i \in 1..Len(p) : s[i] = p[i]

\* s.rsplit(".", 1)[-1] if "." in s else s
AfterLastDot(s) ==
    IF \E i \in 1..Len(s) : s[i] = "."
    THEN LET k == CHOOSE i \in 1..Len(s) :
                      /\ s[i] = "."
                      /\ \A j \in (i + 1)..Len(s) : s[j] # "."
         IN  SubSeq(s, k + 1, Len(s))
    ELSE s

-----------------------------------------------------------------------------
(* Constants of droidutils.py *)

MIN_ELEMENT_SIZE == 5

\* VISIBILITY_THRESHOLD = 0.1, kept as the fraction 1 / 10
VISIBILITY_THRESHOLD_NUM == 1

VISIBILITY_THRESHOLD_DEN == 10

NOISE_CLASSES ==
    { <<"View">>, <<"FrameLayout">>, <<"LinearLayout">>, <<"RelativeLayout">>,
      <<"ConstraintLayout">>, <<"CoordinatorLayout">>, <<"ViewGroup">>,
      <<"RecyclerView">>, <<"ScrollView">>, <<"HorizontalScrollView">>,
      <<"NestedScrollView">>, <<"ViewPager">>, <<"ViewPager2">>,
      <<"ComposeView">>, <<"AndroidComposeView">> }

KEYBOARD_PREFIXES ==
    << <<"com", ".", "google", ".", "android", ".", "inputmethod">>,
       <<"com", ".", "android", ".", "inputmethod">>,
       <<"com", ".", "samsung", ".", "android", ".", "honeyboard">> >>

-----------------------------------------------------------------------------
(* Bounds utilities *)

\* parse_bounds, string branch: the first four comma-separated integers
\* (TLC's values are typed, so the isinstance test is settled by which of
\* the two operators is applied)
parse_bounds(bounds) == <<bounds[1], bounds[2], bounds[3], bounds[4]>>

\* parse_bounds, dict branch
parse_bounds_dict(bounds) ==
    <<bounds["left"], bounds["top"], bounds["right"], bounds["bottom"]>>

\* get_bounds: the "bounds" string when non-empty, else "boundsInScreen"
\* formatted as "l, t, r, b", else ""
get_bounds(node) ==
    LET bounds == Get(node, "bounds", <<>>)
        bounds_obj == GetOpt(node, "boundsInScreen")
    IN  IF bounds # <<>>
        THEN bounds
        ELSE IF bounds_obj # None /\ DOMAIN bounds_obj[1] # {}
             THEN <<bounds_obj[1]["left"], bounds_obj[1]["top"],
                    bounds_obj[1]["right"], bounds_obj[1]["bottom"]>>
             ELSE <<>>

\* (l + r) / 2 rounded toward zero
center_of_truncating(bounds_str) ==
    LET p == parse_bounds(bounds_str)
        Half(n) == IF n >= 0 THEN n \div 2 ELSE -((-n) \div 2)
    IN  <<Half(p[1] + p[3]), Half(p[2] + p[4])>>

center_of(bounds_str) ==
    LET p == parse_bounds(bounds_str)
    IN  <<FloorDiv2(p[1] + p[3]), FloorDiv2(p[2] + p[4])>>

get_element_size(bounds) ==
    LET p == parse_bounds(bounds)
    IN  <<p[3] - p[1], p[4] - p[2]>>

-----------------------------------------------------------------------------
(* Filtering *)

is_too_small(node) ==
    LET bounds == get_bounds(node)
    IN  IF bounds = <<>>
        THEN FALSE
        ELSE LET wh == get_element_size(bounds)
             IN  wh[1] < MIN_ELEMENT_SIZE \/ wh[2] < MIN_ELEMENT_SIZE

is_keyboard_element(node) ==
    LET resource_id == Get(node, "resourceId", <<>>)
    IN  \E i \in 1..Len(KEYBOARD_PREFIXES) : StartsWith(resource_id, KEYBOARD_PREFIXES[i])

\* The float comparison (visible_area / total_area) >= 0.1 is the integer
\* comparison 10 * visible_area >= total_area: both areas are pixel counts
\* far below 2^53, so the quotient is correctly rounded and a ratio below
\* 1/10 stays below the double nearest to 0.1.
RatioAtLeastThreshold(visible_area, total_area) ==
    IF total_area > 0
    THEN visible_area * VISIBILITY_THRESHOLD_DEN >= total_area * VISIBILITY_THRESHOLD_NUM
    ELSE visible_area * VISIBILITY_THRESHOLD_DEN <= total_area * VISIBILITY_THRESHOLD_NUM

is_visible_strict(node, screen_width, screen_height) ==
    LET bounds == get_bounds(node)
    IN  IF bounds = <<>>
        THEN TRUE
        ELSE LET p == parse_bounds(bounds)
                 vl == Max(p[1], 0)
                 vt == Max(p[2], 0)
                 vr == Min(p[3], screen_width)
                 vb == Min(p[4], screen_height)
                 visible_area == (vr - vl) * (vb - vt)
                 total_area == (p[3] - p[1]) * (p[4] - p[2])
             IN  IF vr <= vl \/ vb <= vt
                 THEN FALSE
                 ELSE IF total_area = 0
                      THEN FALSE
                      ELSE visible_area * VISIBILITY_THRESHOLD_DEN
                               > total_area * VISIBILITY_THRESHOLD_NUM

is_visible(node, screen_width, screen_height) ==
    LET bounds == get_bounds(node)
    IN  IF bounds = <<>>
        THEN TRUE
        ELSE LET p == parse_bounds(bounds)
                 vl == Max(p[1], 0)
                 vt == Max(p[2], 0)
                 vr == Min(p[3], screen_width)
                 vb == Min(p[4], screen_height)
                 visible_area == (vr - vl) * (vb - vt)
                 total_area == (p[3] - p[1]) * (p[4] - p[2])
             IN  IF vr <= vl \/ vb <= vt
                 THEN FALSE
                 ELSE IF total_area = 0
                      THEN FALSE
                      ELSE RatioAtLeastThreshold(visible_area, total_area)

is_noise_short_only(node) ==
    LET class_name == Get(node, "className", <<>>)
        short_class == AfterLastDot(class_name)
        text == Get(node, "text", <<>>)
    IN  IF short_class \notin NOISE_CLASSES
        THEN FALSE
        ELSE IF text = <<>> \/ text = short_class
             THEN TRUE
             ELSE IF Contains(text, <<"resource_name_obfuscated">>)
                     \/ Contains(text, <<"0_resource">>)
                  THEN TRUE
                  ELSE FALSE

is_noise(node) ==
    LET class_name == Get(node, "className", <<>>)
        short_class == AfterLastDot(class_name)
        text == Get(node, "text", <<>>)
    IN  IF short_class \notin NOISE_CLASSES
        THEN FALSE
        ELSE IF text = <<>> \/ text = short_class \/ text = class_name
             THEN TRUE
             ELSE IF Contains(text, <<"resource_name_obfuscated">>)
                     \/ Contains(text, <<"0_resource">>)
                  THEN TRUE
                  ELSE FALSE

\* Python truth of an optional int argument (None and 0 are false)
TruthyInt(opt) == opt # None /\ opt[1] # 0

\* kw: the filter keyword arguments [screen_width, screen_height,
\* filter_noise, filter_small, filter_keyboard, filter_invisible]
should_filter_no_keyboard(node, kw) ==
    IF kw.filter_noise /\ is_noise(node)
    THEN TRUE
    ELSE IF kw.filter_small /\ is_too_small(node)
    THEN TRUE
    ELSE IF kw.filter_invisible /\ TruthyInt(kw.screen_width) /\ TruthyInt(kw.screen_height)
            /\ ~is_visible(node, kw.screen_width[1], kw.screen_height[1])
    THEN TRUE
    ELSE FALSE

should_filter(node, kw) ==
    IF kw.filter_noise /\ is_noise(node)
    THEN TRUE
    ELSE IF kw.filter_small /\ is_too_small(node)
    THEN TRUE
    ELSE IF kw.filter_keyboard /\ is_keyboard_element(node)
    THEN TRUE
    ELSE IF kw.filter_invisible /\ TruthyInt(kw.screen_width) /\ TruthyInt(kw.screen_height)
            /\ ~is_visible(node, kw.screen_width[1], kw.screen_height[1])
    THEN TRUE
    ELSE FALSE

\* should_filter's defaults
DefaultFilterKw ==
    [screen_width |-> None, screen_height |-> None,
     filter_noise |-> TRUE, filter_small |-> TRUE,
     filter_keyboard |-> TRUE, filter_invisible |-> TRUE]

-----------------------------------------------------------------------------
(* Values the wait loop's variables hold while another call is examined *)

WaitIdle ==
    /\ now = 0
    /\ start = 0
    /\ elapsed = 0
    /\ attempt = 0
    /\ output = <<>>
    /\ exit = ""
    /\ log = <<>>

\* a dict holding the keys of `keys` among those of record r
Restrict(r, keys) == [k \in keys |-> r[k]]

-----------------------------------------------------------------------------
(* is_noise on one node: class names and texts *)

ClassNames ==
    { <<>>,
      <<"FrameLayout">>,
      <<"android", ".", "widget", ".", "FrameLayout">>,
      <<"ViewPager2">>,
      <<"Button">>,
      <<"android", ".", "widget", ".", "Button">>,
      <<"FrameLayout", ".", "Button">>,
      <<"View", ".">> }

NoiseTexts ==
    { <<>>,
      <<"Submit">>,
      <<"FrameLayout">>,
      <<"android", ".", "widget", ".", "FrameLayout">>,
      <<"android", ".", "widget", ".", "Button">>,
      <<"widget", ".", "FrameLayout">>,
      <<"x", "resource_name_obfuscated">>,
      <<"0_resource", "y">> }

NoiseNodes ==
    UNION { { Restrict([className |-> c, text |-> t], keys) :
                c \in ClassNames, t \in NoiseTexts } :
            keys \in { {"className", "text"}, {"className"}, {"text"}, {} } }

\* is_noise of droid-observe.py: the same code as droidutils.is_noise
observe_is_noise(node) ==
    LET class_name == Get(node, "className", <<>>)
        short_class == AfterLastDot(class_name)
        text == Get(node, "text", <<>>)
    IN  IF short_class \notin NOISE_CLASSES
        THEN FALSE
        ELSE IF text = <<>> \/ text = short_class \/ text = class_name
             THEN TRUE
             ELSE IF Contains(text, <<"resource_name_obfuscated">>)
                     \/ Contains(text, <<"0_resource">>)
                  THEN TRUE
                  ELSE FALSE

InitNoise ==
    /\ pc = "call"
    /\ tree = <<>>
    /\ element \in NoiseNodes
    /\ args = <<>>
    /\ ret = <<>>
    /\ blockers = <<>>
    /\ WaitIdle

CallIsNoise ==
    /\ pc = "call"
    /\ pc' = "is_noise"
    /\ ret' = is_noise(element)
    /\ UNCHANGED <<tree, element, args, blockers>>
    /\ UNCHANGED waitVars

CallObserveIsNoise ==
    /\ pc = "call"
    /\ pc' = "observe_is_noise"
    /\ ret' = observe_is_noise(element)
    /\ UNCHANGED <<tree, element, args, blockers>>
    /\ UNCHANGED waitVars

NextNoise == CallIsNoise \/ CallObserveIsNoise

SpecNoise == InitNoise /\ [][NextNoise]_vars

\* The short class name: the suffix of the class name that holds no "."
\* and is the whole name or follows a "."
ShortNameOf(c) ==
    LET k == CHOOSE j \in 0..Len(c) :
                 /\ \A i \in (j + 1)..Len(c) : c[i] # "."
                 /\ j = 0 \/ c[j] = "."
    IN  [i \in 1..(Len(c) - k) |-> c[k + i]]

HasMarker(text) ==
    \E i \in 1..Len(text) : text[i] \in {"resource_name_obfuscated", "0_resource"}

NoiseByDefinition(node) ==
    LET c == Get(node, "className", <<>>)
        t == Get(node, "text", <<>>)
    IN  /\ ShortNameOf(c) \in NOISE_CLASSES
        /\ \/ t = <<>>
           \/ t = ShortNameOf(c)
           \/ t = c
           \/ HasMarker(t)

\* C9: is_noise(node) is true iff the node's short class name (the part after
\* the last ".") is in NOISE_CLASSES and its text is empty, equals the short
\* class name, equals the fully-qualified class name, or holds an
\* obfuscated-resource marker; FrameLayout with text "" is noise and
\* FrameLayout with text "Submit" is not.
C9_IsNoiseIff ==
    pc \in {"is_noise", "observe_is_noise"} =>
        /\ ret = NoiseByDefinition(element)
        /\ element = [className |-> <<"FrameLayout">>, text |-> <<>>] => ret = TRUE
        /\ element = [className |-> <<"FrameLayout">>, text |-> <<"Submit">>] => ret = FALSE

C9_Witness ==
    /\ pc = "is_noise"
    /\ element = [className |-> <<"android", ".", "widget", ".", "FrameLayout">>,
                  text |-> <<"android", ".", "widget", ".", "FrameLayout">>]
    /\ ret = TRUE

-----------------------------------------------------------------------------
(* is_visible on one node: rectangles against screen sizes *)

VisRects ==
    { <<l, t, r, b>> : l \in -1..MaxX, t \in -1..MaxY, r \in -1..MaxX, b \in -1..MaxY }

ValidRect(p) == p[1] <= p[3] /\ p[2] <= p[4]

SampleRects == { <<0, 0, 100, 100>>, <<200, 200, 300, 300>>, <<40, 40, 140, 60>> }

BoundsDict(p) == [left |-> p[1], top |-> p[2], right |-> p[3], bottom |-> p[4]]

VisNodes ==
    { [bounds |-> p] : p \in { q \in VisRects \cup SampleRects : ValidRect(q) } }
    \cup { [boundsInScreen |-> BoundsDict(p)] :
             p \in { q \in VisRects \cup SampleRects : ValidRect(q) } }
    \cup { [text |-> <<"OK">>], [bounds |-> <<>>],
           [bounds |-> <<>>, boundsInScreen |-> BoundsDict(<<200, 200, 300, 300>>)] }

ScreenDims == {0, 1, 2, 50}

InitVisible ==
    /\ pc = "call"
    /\ tree = <<>>
    /\ element \in VisNodes
    /\ args \in [screen_width : ScreenDims, screen_height : ScreenDims]
    /\ ret = <<>>
    /\ blockers = <<>>
    /\ WaitIdle

CallIsVisible ==
    /\ pc = "call"
    /\ pc' = "is_visible"
    /\ ret' = is_visible(element, args.screen_width, args.screen_height)
    /\ UNCHANGED <<tree, element, args, blockers>>
    /\ UNCHANGED waitVars

NextVisible == CallIsVisible

SpecVisible == InitVisible /\ [][NextVisible]_vars

\* The node's rectangle, from whichever representation holds it
HasBounds(node) ==
    \/ "bounds" \in DOMAIN node /\ node["bounds"] # <<>>
    \/ "boundsInScreen" \in DOMAIN node

RectOf(node) ==
    IF "bounds" \in DOMAIN node /\ node["bounds"] # <<>>
    THEN node["bounds"]
    ELSE LET d == node["boundsInScreen"]
         IN  <<d.left, d.top, d.right, d.bottom>>

\* length of the intersection of the intervals [a1, a2] and [b1, b2]
OverlapLen(a1, a2, b1, b2) == Max(0, Min(a2, b2) - Max(a1, b1))

ClippedArea(p, w, h) == OverlapLen(p[1], p[3], 0, w) * OverlapLen(p[2], p[4], 0, h)

TotalArea(p) == (p[3] - p[1]) * (p[4] - p[2])

InvisibleByDefinition(node, w, h) ==
    /\ HasBounds(node)
    /\ \/ ClippedArea(RectOf(node), w, h) = 0
       \/ TotalArea(RectOf(node)) = 0
       \/ 10 * ClippedArea(RectOf(node), w, h) < TotalArea(RectOf(node))

\* C8: is_visible returns false iff the node has bounds and either the bounds
\* clipped to [0,0,width,height] have zero area, or the total area is zero,
\* or 10 * clipped area < total area; a node without bounds in either
\* representation is visible; (200,200,300,300) on a 50x50 screen is invisible.
C8_IsVisibleIff ==
    pc = "is_visible" =>
        /\ (ret = FALSE) <=> InvisibleByDefinition(element, args.screen_width, args.screen_height)
        /\ ~HasBounds(element) => ret = TRUE
        /\ ( /\ HasBounds(element)
             /\ RectOf(element) = <<200, 200, 300, 300>>
             /\ args = [screen_width |-> 50, screen_height |-> 50] ) => ret = FALSE

C8_Witness ==
    /\ pc = "is_visible"
    /\ element = [bounds |-> <<200, 200, 300, 300>>]
    /\ args = [screen_width |-> 50, screen_height |-> 50]
    /\ ret = FALSE

-----------------------------------------------------------------------------
(* should_filter on one node: every combination of the four toggles *)

FilterResourceIds ==
    { <<"com", ".", "google", ".", "android", ".", "inputmethod", ".", "latin", ":id/key">>,
      <<"com", ".", "android", ".", "inputmethod">>,
      <<"com", ".", "app", ":id/ok">> }

FilterBounds ==
    { <<0, 0, 4, 40>>, <<10, 10, 50, 30>>, <<200, 200, 300, 300>>, <<45, 0, 145, 10>> }

FilterNodes ==
    UNION { { Restrict([className |-> c, text |-> t, resourceId |-> i, bounds |-> p], keys) :
                c \in { <<"android", ".", "widget", ".", "FrameLayout">>, <<"Button">> },
                t \in { <<>>, <<"OK">> },
                i \in FilterResourceIds,
                p \in FilterBounds } :
            keys \in { {"className", "text", "resourceId", "bounds"},
                       {"className", "text", "bounds"},
                       {"className", "text", "resourceId"} } }

FilterKws ==
    [screen_width : {None, Some(0), Some(50)},
     screen_height : {None, Some(0), Some(50)},
     filter_noise : BOOLEAN, filter_small : BOOLEAN,
     filter_keyboard : BOOLEAN, filter_invisible : BOOLEAN]

InitShouldFilter ==
    /\ pc = "call"
    /\ tree = <<>>
    /\ element \in FilterNodes
    /\ args \in FilterKws
    /\ ret = <<>>
    /\ blockers = <<>>
    /\ WaitIdle

CallShouldFilter ==
    /\ pc = "call"
    /\ pc' = "should_filter"
    /\ ret' = should_filter(element, args)
    /\ UNCHANGED <<tree, element, args, blockers>>
    /\ UNCHANGED waitVars

NextShouldFilter == CallShouldFilter

SpecShouldFilter == InitShouldFilter /\ [][NextShouldFilter]_vars

TooSmallByDefinition(node) ==
    /\ HasBounds(node)
    /\ \/ RectOf(node)[3] - RectOf(node)[1] < 5
       \/ RectOf(node)[4] - RectOf(node)[2] < 5

KeyboardByDefinition(node) ==
    /\ "resourceId" \in DOMAIN node
    /\ \E i \in 1..Len(KEYBOARD_PREFIXES) :
           /\ Len(node["resourceId"]) >= Len(KEYBOARD_PREFIXES[i])
           /\ SubSeq(node["resourceId"], 1, Len(KEYBOARD_PREFIXES[i])) = KEYBOARD_PREFIXES[i]

\* the three checks that need no screen size
FlaggedWithoutScreen(node, kw) ==
    \/ kw.filter_noise /\ NoiseByDefinition(node)
    \/ kw.filter_small /\ TooSmallByDefinition(node)
    \/ kw.filter_keyboard /\ KeyboardByDefinition(node)

\* C7 as claimed: should_filter flags a node iff at least one enabled check
\* flags it, for every combination of the toggles and for every screen-size
\* argument: with filter_invisible enabled, a node invisible on the screen
\* size given is filtered out.
C7_Original ==
    (pc = "should_filter" /\ args.screen_width # None /\ args.screen_height # None) =>
        ret = ( \/ FlaggedWithoutScreen(element, args)
                \/ /\ args.filter_invisible
                   /\ InvisibleByDefinition(element, args.screen_width[1], args.screen_height[1]) )

\* C7 as amended: should_filter flags a node iff at least one enabled check
\* flags it, where the invisible check is applied only when filter_invisible
\* is set and screen_width and screen_height are both given and non-zero.
C7_ShouldFilterIff ==
    pc = "should_filter" =>
        ret = ( \/ FlaggedWithoutScreen(element, args)
                \/ /\ args.filter_invisible
                   /\ args.screen_width \notin {None, Some(0)}
                   /\ args.screen_height \notin {None, Some(0)}
                   /\ InvisibleByDefinition(element, args.screen_width[1], args.screen_height[1]) )

\* only the invisible check flags the node, and it is filtered
C7_Witness ==
    /\ pc = "should_filter"
    /\ args.filter_invisible
    /\ args.screen_width = Some(50)
    /\ args.screen_height = Some(50)
    /\ ~FlaggedWithoutScreen(element, args)
    /\ InvisibleByDefinition(element, 50, 50)
    /\ ret = TRUE

-----------------------------------------------------------------------------
(* Snapshots: forests of at most MaxNodes nodes.  Node i hangs under node   *)
(* parent[i] < i (0: a root); siblings are ordered by their number.         *)

ParentVectors(n) == { p \in [1..n -> 0..(n - 1)] : \A i \in 1..n : p[i] < i }

RECURSIVE SortedSeq(_)
SortedSeq(S) ==
    IF S = {}
    THEN <<>>
    ELSE LET m == CHOOSE x \in S : \A y \in S : x <= y
         IN  <<m>> \o SortedSeq(S \ {m})

Kids(p, i) == SortedSeq({ j \in DOMAIN p : p[j] = i })

\* The dict of node i: Dec(attrs[i], i), and its children under "children"
\* (a leaf holds an empty list when its number is even, no key when odd)
RECURSIVE MkNode(_, _, _, _)
MkNode(p, attrs, Dec(_, _), i) ==
    LET kids == Kids(p, i)
        base == Dec(attrs[i], i)
    IN  IF kids = <<>> /\ i % 2 = 1
        THEN base
        ELSE [k \in DOMAIN base \cup {"children"} |->
                 IF k = "children"
                 THEN [j \in 1..Len(kids) |-> MkNode(p, attrs, Dec, kids[j])]
                 ELSE base[k]]

MkForest(p, attrs, Dec(_, _)) ==
    LET roots == Kids(p, 0)
    IN  [j \in 1..Len(roots) |-> MkNode(p, attrs, Dec, roots[j])]

\* every forest of at most MaxNodes nodes whose node i is Dec(a, i), a in Kinds
Forests(Kinds, Dec(_, _)) ==
    UNION { { MkForest(p, attrs, Dec) : p \in ParentVectors(n), attrs \in [1..n -> Kinds] } :
            n \in 0..MaxNodes }

\* dict d with key k set to v
With(d, k, v) == [x \in DOMAIN d \cup {k} |-> IF x = k THEN v ELSE d[x]]

-----------------------------------------------------------------------------
(* Tree traversal *)

\* walk_tree(nodes, results, **filter_kwargs): the list `results` after the call
RECURSIVE walk_tree_prune(_, _, _)
walk_tree_prune(nodes, results, kw) ==
    IF nodes = <<>>
    THEN results
    ELSE LET node == Head(nodes)
             children == Get(node, "children", <<>>)
         IN  IF ~should_filter(node, kw)
             THEN walk_tree_prune(Tail(nodes),
                      IF children # <<>>
                      THEN walk_tree_prune(children, Append(results, node), kw)
                      ELSE Append(results, node), kw)
             ELSE walk_tree_prune(Tail(nodes), results, kw)

RECURSIVE walk_tree(_, _, _)
walk_tree(nodes, results, kw) ==
    IF nodes = <<>>
    THEN results
    ELSE LET node == Head(nodes)
             appended == IF ~should_filter(node, kw) THEN Append(results, node) ELSE results
             children == Get(node, "children", <<>>)
             walked == IF children # <<>> THEN walk_tree(children, appended, kw) ELSE appended
         IN  walk_tree(Tail(nodes), walked, kw)

\* walk_tree of droid-observe.py: the filter is is_noise alone
RECURSIVE observe_walk_tree(_, _)
observe_walk_tree(nodes, results) ==
    IF nodes = <<>>
    THEN results
    ELSE LET node == Head(nodes)
             appended == IF ~observe_is_noise(node) THEN Append(results, node) ELSE results
             children == Get(node, "children", <<>>)
             walked == IF children # <<>> THEN observe_walk_tree(children, appended) ELSE appended
         IN  observe_walk_tree(Tail(nodes), walked)

\* build_index: the dict index -> node, a later node overwriting an earlier one
RECURSIVE build_index_walk_first(_, _)
build_index_walk_first(nodes, index_map) ==
    IF nodes = <<>>
    THEN index_map
    ELSE LET node == Head(nodes)
             idx == GetOpt(node, "index")
             put == IF idx # None /\ idx[1] \notin DOMAIN index_map
                    THEN [k \in DOMAIN index_map \cup {idx[1]} |->
                              IF k = idx[1] THEN node ELSE index_map[k]]
                    ELSE index_map
         IN  build_index_walk_first(Tail(nodes),
                 build_index_walk_first(Get(node, "children", <<>>), put))

RECURSIVE build_index_walk(_, _)
build_index_walk(nodes, index_map) ==
    IF nodes = <<>>
    THEN index_map
    ELSE LET node == Head(nodes)
             idx == GetOpt(node, "index")
             put == IF idx # None
                    THEN [k \in DOMAIN index_map \cup {idx[1]} |->
                              IF k = idx[1] THEN node ELSE index_map[k]]
                    ELSE index_map
         IN  build_index_walk(Tail(nodes),
                 build_index_walk(Get(node, "children", <<>>), put))

\* the empty dict
EmptyDict == [k \in {} |-> k]

build_index(nodes) == build_index_walk(nodes, EmptyDict)

find_element_by_index(nodes, index) ==
    LET index_map == build_index(nodes)
    IN  IF index \in DOMAIN index_map THEN Some(index_map[index]) ELSE None

\* Python truth of an optional dict (None and {} are false)
TruthyDict(opt) == opt # None /\ DOMAIN opt[1] # {}

RECURSIVE find_element_case_sensitive(_, _, _)
find_element_case_sensitive(nodes, search_text, exact) ==
    IF nodes = <<>>
    THEN None
    ELSE LET node == Head(nodes)
             text == Get(node, "text", <<>>)
             children == Get(node, "children", <<>>)
             found == IF children # <<>>
                      THEN find_element_case_sensitive(children, search_text, exact)
                      ELSE None
         IN  IF text # <<>> /\ exact /\ text = search_text
             THEN Some(node)
             ELSE IF text # <<>> /\ ~exact /\ Contains(text, search_text)
             THEN Some(node)
             ELSE IF TruthyDict(found)
             THEN found
             ELSE find_element_case_sensitive(Tail(nodes), search_text, exact)

RECURSIVE find_element(_, _, _)
find_element(nodes, search_text, exact) ==
    IF nodes = <<>>
    THEN None
    ELSE LET node == Head(nodes)
             text == Get(node, "text", <<>>)
             children == Get(node, "children", <<>>)
             found == IF children # <<>>
                      THEN find_element(children, search_text, exact)
                      ELSE None
         IN  IF text # <<>> /\ exact /\ text = search_text
             THEN Some(node)
             ELSE IF text # <<>> /\ ~exact /\ Contains(lower(text), lower(search_text))
             THEN Some(node)
             ELSE IF TruthyDict(found)
             THEN found
             ELSE find_element(Tail(nodes), search_text, exact)

-----------------------------------------------------------------------------
(* Pre-order, stated on paths: a node's path is the sequence of sibling     *)
(* positions leading to it; pre-order is the lexicographic order of paths   *)
(* (a prefix first).                                                        *)

RECURSIVE PathsOf(_)
PathsOf(nodes) ==
    UNION { {<<i>>} \cup { <<i>> \o q : q \in PathsOf(Get(nodes[i], "children", <<>>)) } :
            i \in 1..Len(nodes) }

RECURSIVE NodeAt(_, _)
NodeAt(nodes, path) ==
    IF Len(path) = 1
    THEN nodes[path[1]]
    ELSE NodeAt(nodes[path[1]]["children"], Tail(path))

PathBefore(x, y) ==
    \/ Len(x) < Len(y) /\ \A i \in 1..Len(x) : x[i] = y[i]
    \/ \E k \in 1..Min(Len(x), Len(y)) :
           /\ x[k] < y[k]
           /\ \A i \in 1..(k - 1) : x[i] = y[i]

\* the paths of the forest, in pre-order
PreOrderPaths(nodes) ==
    LET P == PathsOf(nodes)
    IN  [k \in 1..Cardinality(P) |->
            CHOOSE x \in P : Cardinality({ y \in P : PathBefore(y, x) }) = k - 1]

\* the nodes of the forest, in pre-order
PreOrder(nodes) ==
    LET pp == PreOrderPaths(nodes)
    IN  [k \in 1..Len(pp) |-> NodeAt(nodes, pp[k])]

\* the subsequence of s at the positions in `keep`
RECURSIVE Filtered(_, _)
Filtered(s, keep) ==
    IF s = <<>>
    THEN <<>>
    ELSE (IF Len(s) \in keep THEN Filtered(SubSeq(s, 1, Len(s) - 1), keep) \o <<s[Len(s)]>>
          ELSE Filtered(SubSeq(s, 1, Len(s) - 1), keep))

-----------------------------------------------------------------------------
(* walk_tree on a snapshot *)

WalkKinds ==
    { [className |-> <<"android", ".", "widget", ".", "FrameLayout">>],
      [className |-> <<"android", ".", "widget", ".", "Button">>, text |-> <<"OK">>,
       bounds |-> <<10, 10, 50, 30>>],
      [className |-> <<"TextView">>, text |-> <<"Submit">>, bounds |-> <<0, 0, 4, 40>>],
      [className |-> <<"ImageView">>, bounds |-> <<200, 200, 300, 300>>,
       resourceId |-> <<"com", ".", "android", ".", "inputmethod", ".", "latin">>] }

WithIndex(a, i) == With(a, "index", i)

WalkKws ==
    { DefaultFilterKw,
      [DefaultFilterKw EXCEPT !.filter_noise = FALSE],
      [DefaultFilterKw EXCEPT !.filter_keyboard = FALSE,
                              !.screen_width = Some(50), !.screen_height = Some(50)],
      [DefaultFilterKw EXCEPT !.filter_small = FALSE, !.filter_invisible = FALSE] }

InitWalk ==
    /\ pc = "call"
    /\ tree \in Forests(WalkKinds, WithIndex)
    /\ element = <<>>
    /\ args \in WalkKws
    /\ ret = <<>>
    /\ blockers = <<>>
    /\ WaitIdle

CallWalkTree ==
    /\ pc = "call"
    /\ pc' = "walk_tree"
    /\ ret' = walk_tree(tree, <<>>, args)
    /\ UNCHANGED <<tree, element, args, blockers>>
    /\ UNCHANGED waitVars

CallObserveWalkTree ==
    /\ pc = "call"
    /\ pc' = "observe_walk_tree"
    /\ ret' = observe_walk_tree(tree, <<>>)
    /\ UNCHANGED <<tree, element, args, blockers>>
    /\ UNCHANGED waitVars

NextWalk == CallWalkTree \/ CallObserveWalkTree

SpecWalk == InitWalk /\ [][NextWalk]_vars

\* C4: walk_tree's result is exactly the pre-order sequence of all nodes of
\* the forest restricted to those for which should_filter is false; the
\* children of a filtered node are traversed all the same.  (droid-observe's
\* copy: the same with is_noise as the filter.)
C4_WalkTreePreOrder ==
    /\ pc = "walk_tree" =>
           ret = Filtered(PreOrder(tree),
                          { k \in 1..Len(PreOrder(tree)) : ~should_filter(PreOrder(tree)[k], args) })
    /\ pc = "observe_walk_tree" =>
           ret = Filtered(PreOrder(tree),
                          { k \in 1..Len(PreOrder(tree)) : ~NoiseByDefinition(PreOrder(tree)[k]) })

\* a filtered first root whose kept child is in the result, before the second root
C4_Witness ==
    /\ pc = "walk_tree"
    /\ Len(tree) = 2
    /\ should_filter(tree[1], args)
    /\ "children" \in DOMAIN tree[1] /\ tree[1]["children"] # <<>>
    /\ ~should_filter(tree[1]["children"][1], args)
    /\ ~should_filter(tree[2], args)
    /\ ret = <<tree[1]["children"][1], tree[2]>>

-----------------------------------------------------------------------------
(* find_element on a snapshot *)

FindKinds ==
    { [className |-> <<"View">>],
      [text |-> <<>>],
      [text |-> <<"Login">>],
      [text |-> <<"Login", " ", "Button">>],
      [text |-> <<"login">>] }

SearchTexts == { <<"Login">>, <<"login">>, <<"Button">>, <<>> }

\* find_element of droid-wait.py: the same code as droidutils.find_element
RECURSIVE wait_find_element(_, _, _)
wait_find_element(nodes, search_text, exact) ==
    IF nodes = <<>>
    THEN None
    ELSE LET node == Head(nodes)
             text == Get(node, "text", <<>>)
             children == Get(node, "children", <<>>)
             found == IF children # <<>>
                      THEN wait_find_element(children, search_text, exact)
                      ELSE None
         IN  IF text # <<>> /\ exact /\ text = search_text
             THEN Some(node)
             ELSE IF text # <<>> /\ ~exact /\ Contains(lower(text), lower(search_text))
             THEN Some(node)
             ELSE IF TruthyDict(found)
             THEN found
             ELSE wait_find_element(Tail(nodes), search_text, exact)

InitFind ==
    /\ pc = "call"
    /\ tree \in Forests(FindKinds, WithIndex)
    /\ element = <<>>
    /\ args \in [search_text : SearchTexts, exact : BOOLEAN]
    /\ ret = <<>>
    /\ blockers = <<>>
    /\ WaitIdle

CallFindElement ==
    /\ pc = "call"
    /\ pc' = "find_element"
    /\ ret' = find_element(tree, args.search_text, args.exact)
    /\ UNCHANGED <<tree, element, args, blockers>>
    /\ UNCHANGED waitVars

CallWaitFindElement ==
    /\ pc = "call"
    /\ pc' = "wait_find_element"
    /\ ret' = wait_find_element(tree, args.search_text, args.exact)
    /\ UNCHANGED <<tree, element, args, blockers>>
    /\ UNCHANGED waitVars

NextFind == CallFindElement \/ CallWaitFindElement

SpecFind == InitFind /\ [][NextFind]_vars

\* needle occurs in hay when letter case is ignored
ContainsIgnoringCase(hay, needle) ==
    \E k \in 0..(Len(hay) - Len(needle)) :
        \A i \in 1..Len(needle) : LowerToken(hay[k + i]) = LowerToken(needle[i])

MatchesQuery(node, query, exact) ==
    /\ "text" \in DOMAIN node
    /\ node["text"] # <<>>
    /\ IF exact THEN node["text"] = query ELSE ContainsIgnoringCase(node["text"], query)

\* C5: find_element returns the first node in pre-order whose text is
\* non-empty and matches the query (equality when exact, case-insensitive
\* substring containment otherwise), and none iff no node of the forest
\* matches; a node with empty text is never returned; exact "Login" does not
\* match "Login Button".
C5_FindElementFirstMatch ==
    pc \in {"find_element", "wait_find_element"} =>
        LET po == PreOrder(tree)
            hits == { k \in 1..Len(po) : MatchesQuery(po[k], args.search_text, args.exact) }
        IN  /\ (ret = None) <=> (hits = {})
            /\ hits # {} => ret = Some(po[CHOOSE k \in hits : \A j \in hits : k <= j])
            /\ ret # None => Get(ret[1], "text", <<>>) # <<>>
            /\ (args.exact /\ args.search_text = <<"Login">> /\ ret # None)
                   => ret[1]["text"] # <<"Login", " ", "Button">>

\* the match is a nested node that follows an unmatched root and precedes, in
\* pre-order, a later root that matches too
C5_Witness ==
    /\ pc = "find_element"
    /\ ~args.exact
    /\ args.search_text = <<"login">>
    /\ Len(tree) = 2
    /\ ~MatchesQuery(tree[1], args.search_text, args.exact)
    /\ "children" \in DOMAIN tree[1] /\ tree[1]["children"] # <<>>
    /\ tree[1]["children"][1]["text"] = <<"Login", " ", "Button">>
    /\ MatchesQuery(tree[2], args.search_text, args.exact)
    /\ ret = Some(tree[1]["children"][1])

-----------------------------------------------------------------------------
(* build_index and find_element_by_index on a snapshot *)

NodeNames == <<"n1", "n2", "n3", "n4", "n5", "n6">>

IndexKinds == { [text |-> <<>>], [index |-> 0], [index |-> 1], [index |-> 2], [index |-> 7] }

WithName(a, i) == With(a, "resourceId", <<NodeNames[i]>>)

\* nodes indexed 1..5, three at depth 0 and two nested
FiveNodeTree ==
    << [index |-> 1, text |-> <<"a">>,
        children |-> << [index |-> 2, text |-> <<"b">>], [index |-> 3, text |-> <<"c">>] >>],
       [index |-> 4, text |-> <<"d">>],
       [index |-> 5, text |-> <<"e">>, children |-> <<>>] >>

LookupIndexes == {0, 1, 2, 3, 5}

InitIndex ==
    /\ pc = "call"
    /\ tree \in Forests(IndexKinds, WithName) \cup {FiveNodeTree}
    /\ element = <<>>
    /\ args \in [index : LookupIndexes]
    /\ ret = <<>>
    /\ blockers = <<>>
    /\ WaitIdle

CallBuildIndex ==
    /\ pc = "call"
    /\ pc' = "build_index"
    /\ ret' = build_index(tree)
    /\ UNCHANGED <<tree, element, args, blockers>>
    /\ UNCHANGED waitVars

CallFindElementByIndex ==
    /\ pc = "call"
    /\ pc' = "find_element_by_index"
    /\ ret' = find_element_by_index(tree, args.index)
    /\ UNCHANGED <<tree, element, args, blockers>>
    /\ UNCHANGED waitVars

NextIndex == CallBuildIndex \/ CallFindElementByIndex

SpecIndex == InitIndex /\ [][NextIndex]_vars

\* positions, in pre-order, of the nodes that carry index i
Carriers(po, i) == { k \in 1..Len(po) : "index" \in DOMAIN po[k] /\ po[k]["index"] = i }

IndexValues(po) == { po[k]["index"] : k \in { j \in 1..Len(po) : "index" \in DOMAIN po[j] } }

LastOf(S) == CHOOSE k \in S : \A j \in S : j <= k

\* C6: build_index returns a mapping whose keys are exactly the index values
\* carried by nodes of the forest, each mapped to the last node in pre-order
\* carrying it; with unique indices it has one entry per indexed node (five
\* for the tree indexed 1..5); find_element_by_index(tree, i) returns the
\* node with index i, or none when no node has it.
C6_BuildIndexLastWins ==
    LET po == PreOrder(tree)
    IN  /\ pc = "build_index" =>
               /\ DOMAIN ret = IndexValues(po)
               /\ \A i \in DOMAIN ret : ret[i] = po[LastOf(Carriers(po, i))]
               /\ (\A i \in IndexValues(po) : Cardinality(Carriers(po, i)) = 1)
                      => Cardinality(DOMAIN ret)
                             = Cardinality({ k \in 1..Len(po) : "index" \in DOMAIN po[k] })
               /\ tree = FiveNodeTree => Cardinality(DOMAIN ret) = 5
        /\ pc = "find_element_by_index" =>
               IF Carriers(po, args.index) = {}
               THEN ret = None
               ELSE ret = Some(po[LastOf(Carriers(po, args.index))])

\* two nodes carry the same index and the later one in pre-order is mapped
C6_Witness ==
    /\ pc = "build_index"
    /\ Len(tree) = 2
    /\ "children" \in DOMAIN tree[1] /\ tree[1]["children"] # <<>>
    /\ GetOpt(tree[1]["children"][1], "index") = Some(1)
    /\ GetOpt(tree[2], "index") = Some(1)
    /\ DOMAIN ret = {1}
    /\ ret[1] = tree[2]
    /\ ret[1] # tree[1]["children"][1]

-----------------------------------------------------------------------------
(* Clear point detection *)

\* default of find_clear_point's max_depth
DEFAULT_MAX_DEPTH == 4

\* smallest area find_clear_point still subdivides
MIN_SUBDIVIDE_AREA == 100

is_blocked_exclusive(blockers_, x, y) ==
    \E i \in 1..Len(blockers_) :
        /\ blockers_[i][1] < x /\ x < blockers_[i][3]
        /\ blockers_[i][2] < y /\ y < blockers_[i][4]

\* find_clear_point.is_blocked
is_blocked(blockers_, x, y) ==
    \E i \in 1..Len(blockers_) :
        /\ blockers_[i][1] <= x /\ x <= blockers_[i][3]
        /\ blockers_[i][2] <= y /\ y <= blockers_[i][4]

\* only the center of the rectangle is tried
find_clear_point_center_only(bounds, blockers_, depth, max_depth) ==
    LET cx == FloorDiv2(bounds[1] + bounds[3])
        cy == FloorDiv2(bounds[2] + bounds[4])
    IN  IF ~is_blocked(blockers_, cx, cy) THEN Some(<<cx, cy>>) ELSE None

\* the quadrants are tried in the order bottom-right, bottom-left, top-right,
\* top-left
RECURSIVE find_clear_point_reversed(_, _, _, _)
find_clear_point_reversed(bounds, blockers_, depth, max_depth) ==
    LET l == bounds[1]
        t == bounds[2]
        r == bounds[3]
        b == bounds[4]
        cx == FloorDiv2(l + r)
        cy == FloorDiv2(t + b)
        area == (r - l) * (b - t)
        q1 == find_clear_point_reversed(<<l, t, cx, cy>>, blockers_, depth + 1, max_depth)
        q2 == find_clear_point_reversed(<<cx, t, r, cy>>, blockers_, depth + 1, max_depth)
        q3 == find_clear_point_reversed(<<l, cy, cx, b>>, blockers_, depth + 1, max_depth)
        q4 == find_clear_point_reversed(<<cx, cy, r, b>>, blockers_, depth + 1, max_depth)
    IN  IF ~is_blocked(blockers_, cx, cy)
        THEN Some(<<cx, cy>>)
        ELSE IF depth >= max_depth \/ area < MIN_SUBDIVIDE_AREA
        THEN None
        ELSE IF q4 # None THEN q4
        ELSE IF q3 # None THEN q3
        ELSE IF q2 # None THEN q2
        ELSE IF q1 # None THEN q1
        ELSE None

\* find_clear_point(bounds, blockers, depth, max_depth): None or the point
RECURSIVE find_clear_point(_, _, _, _)
find_clear_point(bounds, blockers_, depth, max_depth) ==
    LET l == bounds[1]
        t == bounds[2]
        r == bounds[3]
        b == bounds[4]
        cx == FloorDiv2(l + r)
        cy == FloorDiv2(t + b)
        area == (r - l) * (b - t)
        quadrants == << <<l, t, cx, cy>>, <<cx, t, r, cy>>, <<l, cy, cx, b>>, <<cx, cy, r, b>> >>
        q1 == find_clear_point(quadrants[1], blockers_, depth + 1, max_depth)
        q2 == find_clear_point(quadrants[2], blockers_, depth + 1, max_depth)
        q3 == find_clear_point(quadrants[3], blockers_, depth + 1, max_depth)
        q4 == find_clear_point(quadrants[4], blockers_, depth + 1, max_depth)
    IN  IF ~is_blocked(blockers_, cx, cy)
        THEN Some(<<cx, cy>>)
        ELSE IF depth >= max_depth \/ area < MIN_SUBDIVIDE_AREA
        THEN None
        ELSE IF q1 # None THEN q1
        ELSE IF q2 # None THEN q2
        ELSE IF q3 # None THEN q3
        ELSE IF q4 # None THEN q4
        ELSE None

-----------------------------------------------------------------------------
(* find_clear_point on a target rectangle and a list of blockers *)

ClearTargets ==
    { <<l, t, r, b>> : l \in {-40, 0}, t \in {-40, 0},
                       r \in {7} \cup { 40 * c : c \in 1..MaxCoord },
                       b \in {7} \cup { 40 * c : c \in 1..MaxCoord } }

ClearBlockers ==
    { <<l, t, r, b>> : l \in {-40, 3, 40}, t \in {-40, 3}, r \in {40, 80}, b \in {80} }

BlockerLists == UNION { [1..n -> ClearBlockers] : n \in 0..MaxBlockers }

InitClear ==
    /\ pc = "call"
    /\ tree = <<>>
    /\ element = <<>>
    /\ args \in [bounds : ClearTargets, blockers : BlockerLists]
    /\ ret = <<>>
    /\ blockers = <<>>
    /\ WaitIdle

CallFindClearPoint ==
    /\ pc = "call"
    /\ pc' = "find_clear_point"
    /\ ret' = find_clear_point(args.bounds, args.blockers, 0, DEFAULT_MAX_DEPTH)
    /\ UNCHANGED <<tree, element, args, blockers>>
    /\ UNCHANGED waitVars

NextClear == CallFindClearPoint

SpecClear == InitClear /\ [][NextClear]_vars

\* C2: for every target rectangle (l,t,r,b) with l <= r and t <= b and every
\* list of blockers, a point (x,y) returned by find_clear_point lies inside
\* the target (l <= x <= r, t <= y <= b) and inside no blocker under the
\* inclusive test bl <= x <= br and bt <= y <= bb.
C2_ClearPointInsideAndClear ==
    (pc = "find_clear_point" /\ ret # None) =>
        LET x == ret[1][1]
            y == ret[1][2]
        IN  /\ args.bounds[1] <= x /\ x <= args.bounds[3]
            /\ args.bounds[2] <= y /\ y <= args.bounds[4]
            /\ \A i \in 1..Len(args.blockers) :
                   ~( /\ args.blockers[i][1] <= x /\ x <= args.blockers[i][3]
                      /\ args.blockers[i][2] <= y /\ y <= args.blockers[i][4] )

\* the center is blocked and subdivision returns a point away from it
C2_Witness ==
    /\ pc = "find_clear_point"
    /\ args.bounds = <<0, 0, 80, 80>>
    /\ args.blockers = << <<3, 3, 80, 80>> >>
    /\ ret = Some(<<2, 2>>)

-----------------------------------------------------------------------------
(* Tap point selection *)

\* AABB test of get_tap_point: node rectangle n against target rectangle p
Overlaps(n, p) == ~(n[3] <= p[1] \/ n[1] >= p[3] \/ n[4] <= p[2] \/ n[2] >= p[4])

\* get_tap_point.find_overlaps: the list `blockers` after the call.  The two
\* `continue` statements leave the node's children unvisited.
RECURSIVE find_overlaps(_, _, _, _)
find_overlaps(nodes, target_idx, p, acc) ==
    IF nodes = <<>>
    THEN acc
    ELSE LET node == Head(nodes)
             idx == GetOpt(node, "index")
             node_bounds == Get(node, "bounds", <<>>)
             n == parse_bounds(node_bounds)
             appended == IF /\ TruthyInt(idx) /\ TruthyInt(target_idx)
                            /\ idx[1] > target_idx[1]
                            /\ Overlaps(n, p)
                         THEN Append(acc, n)
                         ELSE acc
         IN  IF idx = target_idx
             THEN find_overlaps(Tail(nodes), target_idx, p, acc)
             ELSE IF node_bounds = <<>>
             THEN find_overlaps(Tail(nodes), target_idx, p, acc)
             ELSE find_overlaps(Tail(nodes), target_idx, p,
                      find_overlaps(Get(node, "children", <<>>), target_idx, p, appended))

\* the local `blockers` of get_tap_point(element, tree) when it returns
\* (the empty list when it returns before the search)
get_tap_point_blockers(element_, tree_) ==
    LET bounds == get_bounds(element_)
    IN  IF bounds = <<>> \/ tree_ = <<>>
        THEN <<>>
        ELSE find_overlaps(tree_, GetOpt(element_, "index"), parse_bounds(bounds), <<>>)

get_tap_point_no_fallback(element_, tree_) ==
    LET bounds == get_bounds(element_)
        p == parse_bounds(bounds)
        center == <<FloorDiv2(p[1] + p[3]), FloorDiv2(p[2] + p[4])>>
        found == get_tap_point_blockers(element_, tree_)
    IN  IF bounds = <<>>
        THEN None
        ELSE IF tree_ = <<>>
        THEN Some(center)
        ELSE IF found = <<>>
        THEN Some(center)
        ELSE find_clear_point(p, found, 0, DEFAULT_MAX_DEPTH)

\* get_tap_point(element, tree): None or the point; an absent or empty tree is <<>>
get_tap_point(element_, tree_) ==
    LET bounds == get_bounds(element_)
        p == parse_bounds(bounds)
        center == <<FloorDiv2(p[1] + p[3]), FloorDiv2(p[2] + p[4])>>
        found == get_tap_point_blockers(element_, tree_)
        clear == find_clear_point(p, found, 0, DEFAULT_MAX_DEPTH)
    IN  IF bounds = <<>>
        THEN None
        ELSE IF tree_ = <<>>
        THEN Some(center)
        ELSE IF found = <<>>
        THEN Some(center)
        ELSE IF clear # None THEN clear ELSE Some(center)

-----------------------------------------------------------------------------
(* get_tap_point on a node of a snapshot *)

TapKinds ==
    { [bounds |-> <<0, 0, 80, 80>>],
      [bounds |-> <<-40, -40, 120, 120>>],
      [bounds |-> <<40, 40, 120, 120>>],
      [bounds |-> <<80, 0, 160, 80>>],
      [text |-> <<"OK">>],
      [boundsInScreen |-> BoundsDict(<<40, 40, 120, 120>>)] }

\* the target is a node of the forest, or a node alone when no tree is handed over
InitTap ==
    /\ pc = "call"
    /\ \E f \in Forests(TapKinds, WithIndex) :
           /\ tree = f
           /\ IF f = <<>>
              THEN element \in { WithIndex(k, 1) : k \in TapKinds }
              ELSE element \in { PreOrder(f)[k] : k \in 1..Len(PreOrder(f)) }
    /\ args = <<>>
    /\ ret = <<>>
    /\ blockers = <<>>
    /\ WaitIdle

CallGetTapPoint ==
    /\ pc = "call"
    /\ pc' = "get_tap_point"
    /\ blockers' = get_tap_point_blockers(element, tree)
    /\ ret' = get_tap_point(element, tree)
    /\ UNCHANGED <<tree, element, args>>
    /\ UNCHANGED waitVars

NextTap == CallGetTapPoint

SpecTap == InitTap /\ [][NextTap]_vars

\* the nodes the claim names as blockers, in pre-order: every node of the
\* forest other than the target that has bounds, a greater index than the
\* target and a rectangle overlapping the target's
ClaimedBlockers(forest, target) ==
    LET po == PreOrder(forest)
        keep == { k \in 1..Len(po) :
                    /\ po[k] # target
                    /\ HasBounds(po[k])
                    /\ "index" \in DOMAIN po[k] /\ "index" \in DOMAIN target
                    /\ po[k]["index"] > target["index"]
                    /\ Overlaps(RectOf(po[k]), RectOf(target)) }
    IN  [j \in 1..Cardinality(keep) |->
            RectOf(po[CHOOSE k \in keep : Cardinality({ i \in keep : i < k }) = j - 1])]

\* C1: get_tap_point(element, tree) collects as blockers exactly the nodes of
\* the forest, other than the target, whose index is greater than the
\* target's and whose bounds overlap the target's, wherever they sit in the
\* forest (also under the target or under a node without bounds); only nodes
\* that themselves lack bounds are skipped.
C1_Original ==
    (pc = "get_tap_point" /\ tree # <<>> /\ HasBounds(element)) =>
        blockers = ClaimedBlockers(tree, element)

\* the center by floor division: the integers x, y with 2x <= l+r < 2x+2
IsFloorCenter(pt, p) ==
    /\ 2 * pt[1] <= p[1] + p[3] /\ p[1] + p[3] < 2 * pt[1] + 2
    /\ 2 * pt[2] <= p[2] + p[4] /\ p[2] + p[4] < 2 * pt[2] + 2

\* C3: get_tap_point returns no point iff the target has no bounds; with
\* bounds it returns the floor-division center when no tree is given or no
\* blocker was found, the clear point when quadrant subdivision finds one,
\* and the floor-division center again when subdivision finds none.
C3_TapPointTotal ==
    pc = "get_tap_point" =>
        /\ (ret = None) <=> ~HasBounds(element)
        /\ HasBounds(element) =>
               LET p == RectOf(element)
                   clear == find_clear_point(p, blockers, 0, DEFAULT_MAX_DEPTH)
               IN  /\ (tree = <<>> \/ blockers = <<>>) => IsFloorCenter(ret[1], p)
                   /\ (tree # <<>> /\ blockers # <<>> /\ clear # None) => ret = clear
                   /\ (tree # <<>> /\ blockers # <<>> /\ clear = None) => IsFloorCenter(ret[1], p)

\* a later node covers the whole target: subdivision finds nothing and the
\* center is returned
C3_Witness ==
    /\ pc = "get_tap_point"
    /\ HasBounds(element)
    /\ blockers # <<>>
    /\ find_clear_point(RectOf(element), blockers, 0, DEFAULT_MAX_DEPTH) = None
    /\ ret = Some(<<40, 40>>)

-----------------------------------------------------------------------------
(* droid-wait.py: the transport and the envelope                            *)
(*                                                                          *)
(* What subprocess.run does is a record: kind "FileNotFoundError",          *)
(* "TimeoutExpired", or "completed" with returncode and stdout.  stdout is  *)
(* [empty], or [prefix] telling whether it starts with "Row: 0 result=",    *)
(* followed by the outer JSON text [outer].  A call's outcome is            *)
(* [tag |-> "return", value], [tag |-> "exit", status, message] or          *)
(* [tag |-> "raise", exc] for an exception nothing catches.                 *)

\* subprocess timeout of droid-wait's run_adb, in seconds
WAIT_ADB_TIMEOUT == 10

\* time.sleep(1) of the poll loop
WAIT_POLL_INTERVAL == 1

Return(v) == [tag |-> "return", value |-> v]

Exit(status, message) == [tag |-> "exit", status |-> status, message |-> message]

Raise(exc) == [tag |-> "raise", exc |-> exc]

WaitSnapshots ==
    { <<>>,
      << [index |-> 1, text |-> <<"Login">>] >>,
      << [index |-> 1, className |-> <<"FrameLayout">>,
          children |-> << [index |-> 2, text |-> <<"OK">>, bounds |-> <<10, 10, 50, 30>>] >>],
         [index |-> 3, text |-> <<"ok">>] >> }

\* the decoded value of the envelope's "result" string
ResultValues ==
    { [type |-> "list", items |-> f] : f \in WaitSnapshots } \cup { [type |-> "dict"] }

\* the envelope's "result" field
ResultFields ==
    { [type |-> "number"], [type |-> "str", valid |-> FALSE] }
    \cup { [type |-> "str", valid |-> TRUE, value |-> v] : v \in ResultValues }

OuterJsons ==
    { [type |-> "invalid"], [type |-> "list"],
      [type |-> "dict", obj |-> [other |-> "x"]],
      [type |-> "dict", obj |-> [status |-> "error"]],
      [type |-> "dict", obj |-> [status |-> "success"]] }
    \cup { [type |-> "dict", obj |-> [status |-> "success", result |-> r]] : r \in ResultFields }

Stdouts ==
    { [empty |-> TRUE], [empty |-> FALSE, prefix |-> FALSE] }
    \cup { [empty |-> FALSE, prefix |-> TRUE, outer |-> o] : o \in OuterJsons }

ProcResults ==
    { [kind |-> "FileNotFoundError"], [kind |-> "TimeoutExpired"],
      [kind |-> "completed", returncode |-> 1, stdout |-> [empty |-> TRUE]] }
    \cup { [kind |-> "completed", returncode |-> 0, stdout |-> so] : so \in Stdouts }

\* run_adb of droid-wait.py
wait_run_adb(proc) ==
    IF proc.kind = "FileNotFoundError"
    THEN Exit(1, "Error: adb not found")
    ELSE IF proc.kind = "TimeoutExpired"
    THEN Return(None)
    ELSE IF proc.returncode # 0
    THEN Return(None)
    ELSE Return(Some(proc.stdout))

\* parse_content_provider of droid-wait.py; output is None or Some(stdout).
\* Only JSONDecodeError and KeyError are caught.
wait_parse_content_provider(out) ==
    IF out = None \/ out[1].empty
    THEN Return(None)
    ELSE IF ~out[1].prefix
    THEN Return(None)
    ELSE LET outer == out[1].outer
         IN  IF outer.type = "invalid"
             THEN Return(None)
             ELSE IF outer.type # "dict"
             THEN Raise("AttributeError")
             ELSE IF Get(outer.obj, "status", "") # "success"
             THEN Return(None)
             ELSE IF "result" \notin DOMAIN outer.obj
             THEN Return(None)
             ELSE IF outer.obj["result"].type # "str"
             THEN Raise("TypeError")
             ELSE IF ~outer.obj["result"].valid
             THEN Return(None)
             ELSE Return(Some(outer.obj["result"].value))

\* lines 96-98 of main: `if tree:` and find_element(tree, ...); tree_ is None
\* or Some(decoded value).  Iterating a dict yields its keys, and str has no get.
wait_search(tree_, text, exact) ==
    IF tree_ = None
    THEN Return(None)
    ELSE IF tree_[1].type = "dict"
    THEN Raise("AttributeError")
    ELSE IF tree_[1].items = <<>>
    THEN Return(None)
    ELSE Return(wait_find_element(tree_[1].items, text, exact))

\* one query attempt, lines 90-109: the call that ends it, or Return(element)
wait_attempt(proc, text, exact) ==
    LET ran == wait_run_adb(proc)
        parsed == wait_parse_content_provider(ran.value)
    IN  IF ran.tag # "return"
        THEN ran
        ELSE IF parsed.tag # "return"
        THEN parsed
        ELSE wait_search(parsed.value, text, exact)

timed_out_strict(elapsed_, timeout) == elapsed_ > timeout

\* line 85: elapsed >= args.timeout
timed_out(elapsed_, timeout) == elapsed_ >= timeout

-----------------------------------------------------------------------------
(* droid-wait.py: the poll loop of main *)

WaitArgs ==
    [text : { <<"ok">>, <<"Submit">> }, exact : BOOLEAN, timeout : 0..MaxTimeout]

InitWait ==
    /\ pc = "top"
    /\ tree = <<>>
    /\ element = <<>>
    /\ args \in WaitArgs
    /\ ret = <<>>
    /\ blockers = <<>>
    /\ now = 0
    /\ start = 0
    /\ elapsed = 0
    /\ attempt = 0
    /\ output = <<>>
    /\ exit = ""
    /\ log = [matched |-> FALSE, aborted |-> FALSE]

\* lines 84-89: the top of an iteration
LoopTop ==
    /\ pc = "top"
    /\ elapsed' = now - start
    /\ IF timed_out(elapsed', args.timeout)
       THEN /\ exit' = "timeout"
            /\ pc' = "done"
            /\ UNCHANGED attempt
       ELSE /\ attempt' = attempt + 1
            /\ pc' = "query"
            /\ UNCHANGED exit
    /\ UNCHANGED <<tree, element, args, ret, blockers, now, start, output, log>>

\* does the response carry a snapshot holding a node that matches the text
SnapshotMatches(proc, text, exact) ==
    /\ proc.kind = "completed"
    /\ proc.returncode = 0
    /\ ~proc.stdout.empty
    /\ proc.stdout.prefix
    /\ proc.stdout.outer.type = "dict"
    /\ DOMAIN proc.stdout.outer.obj = {"status", "result"}
    /\ proc.stdout.outer.obj["status"] = "success"
    /\ proc.stdout.outer.obj["result"].type = "str"
    /\ proc.stdout.outer.obj["result"].valid
    /\ proc.stdout.outer.obj["result"].value.type = "list"
    /\ \E k \in 1..Len(PreOrder(proc.stdout.outer.obj["result"].value.items)) :
           MatchesQuery(PreOrder(proc.stdout.outer.obj["result"].value.items)[k], text, exact)

\* lines 90-109: one query attempt; the adb call takes up to its timeout
Query ==
    /\ pc = "query"
    /\ \E proc \in ProcResults :
           LET res == wait_attempt(proc, args.text, args.exact)
           IN  /\ output' = proc
               /\ \E d \in 0..MaxDelay :
                      now' = now + (IF proc.kind = "TimeoutExpired" THEN WAIT_ADB_TIMEOUT ELSE d)
               /\ log' = [matched |-> log.matched \/ SnapshotMatches(proc, args.text, args.exact),
                          aborted |-> res.tag # "return"]
               /\ IF res.tag = "exit"
                  THEN /\ exit' = "adb_not_found"
                       /\ pc' = "done"
                       /\ UNCHANGED ret
                  ELSE IF res.tag = "raise"
                  THEN /\ exit' = "exception"
                       /\ pc' = "done"
                       /\ UNCHANGED ret
                  ELSE IF TruthyDict(res.value)
                  THEN /\ exit' = "found"
                       /\ pc' = "done"
                       /\ ret' = res.value
                  ELSE /\ pc' = "sleep"
                       /\ UNCHANGED <<exit, ret>>
    /\ UNCHANGED <<tree, element, args, blockers, start, elapsed, attempt>>

\* line 111: time.sleep(1) takes at least the interval
Sleep ==
    /\ pc = "sleep"
    /\ \E d \in 0..MaxDelay : now' = now + WAIT_POLL_INTERVAL + d
    /\ pc' = "top"
    /\ UNCHANGED <<tree, element, args, ret, blockers, start, elapsed, attempt, output, exit, log>>

NextWait == LoopTop \/ Query \/ Sleep

SpecWait == InitWait /\ [][NextWait]_vars

\* the interpreter runs the loop on: no step of it waits for anything but
\* the clock and the adb call, which both come back
SpecWaitFair == SpecWait /\ WF_vars(NextWait)

\* C10: the poll loop always terminates (the clock advances, each query
\* attempt returns), in exactly one of two outcomes: success, reported only
\* when some attempt's snapshot held a node matching the text, or timeout
\* failure, reported only at the top of an iteration where elapsed >= timeout
\* and no earlier attempt matched; a query attempt is started only while
\* elapsed < timeout.  (An attempt that does not return is one that ends the
\* process itself: log.aborted.)
C10_PollLoopTerminates ==
    /\ <>(pc = "done")
    /\ []((pc = "done" /\ ~log.aborted) => exit \in {"found", "timeout"})
    /\ [](exit = "found" =>
            /\ log.matched
            /\ SnapshotMatches(output, args.text, args.exact))
    /\ [](exit = "timeout" => (elapsed >= args.timeout /\ ~log.matched))
    /\ [][(exit = "" /\ exit' = "timeout") => pc = "top"]_vars
    /\ [](pc = "query" => elapsed < args.timeout)
    /\ [](pc # "done" => exit = "")

\* the loop gave up after two attempts that found nothing
C10_Witness ==
    /\ pc = "done"
    /\ exit = "timeout"
    /\ attempt >= 2
    /\ ~log.aborted
    /\ elapsed >= args.timeout

\* C11: in the wait command every failed query attempt, whatever its error
\* kind (transport not found, transport timeout, non-zero exit, malformed
\* envelope, non-success status), counts as "no result yet": the loop goes on
\* to its own timeout and the only failure it ever reports is the timeout.
C11_Original ==
    /\ exit \in {"", "found", "timeout"}
    /\ (pc = "done" /\ ~log.matched) => exit = "timeout"

-----------------------------------------------------------------------------
(* The fail-fast transport: run_adb and parse_content_provider of
   droidutils.py, and the self-contained copies of droid-tap.py and
   droid-observe.py *)

\* what adb wrote to stderr when it failed
StderrTexts ==
    { <<"error:", "no devices", "/emulators found">>,
      <<"error: device", "not found">>,
      <<"error: closed">> }

\* the subprocess outcomes: those of the wait model, a failed run with its stderr
FastProcResults ==
    { r \in ProcResults : r.kind # "completed" \/ r.returncode = 0 }
    \cup { [kind |-> "completed", returncode |-> 1, stdout |-> [empty |-> TRUE], stderr |-> e] :
             e \in StderrTexts }

\* lines 89-93 of run_adb: the message for a non-zero return code
adb_failure_message(stderr) ==
    IF Contains(stderr, <<"no devices">>) \/ Contains(stderr, <<"not found">>)
    THEN "Error: no Android device connected"
    ELSE "Error: adb failed"

\* run_adb(args, serial, timeout, check) of droidutils.py
run_adb(proc, check) ==
    IF proc.kind = "FileNotFoundError"
    THEN IF check THEN Exit(1, "Error: adb not found") ELSE Return(None)
    ELSE IF proc.kind = "TimeoutExpired"
    THEN IF check THEN Exit(1, "Error: adb command timed out") ELSE Return(None)
    ELSE IF proc.returncode # 0
    THEN IF check THEN Exit(1, adb_failure_message(proc.stderr)) ELSE Return(None)
    ELSE Return(Some(proc.stdout))

\* parse_content_provider(output, check) of droidutils.py; output is None or
\* Some(stdout).  Only JSONDecodeError and KeyError are caught.
parse_content_provider(out, check) ==
    IF out = None \/ out[1].empty
    THEN IF check THEN Exit(1, "Error: empty response from ContentProvider") ELSE Return(None)
    ELSE IF ~out[1].prefix
    THEN IF check THEN Exit(1, "Error: unexpected response format") ELSE Return(None)
    ELSE LET outer == out[1].outer
             caught == IF check THEN Exit(1, "Error: JSON parse failed") ELSE Return(None)
         IN  IF outer.type = "invalid"
             THEN caught
             ELSE IF outer.type # "dict"
             THEN Raise("AttributeError")
             ELSE IF Get(outer.obj, "status", "") # "success"
             THEN IF check THEN Exit(1, "Error: query failed") ELSE Return(None)
             ELSE IF "result" \notin DOMAIN outer.obj
             THEN caught
             ELSE IF outer.obj["result"].type # "str"
             THEN Raise("TypeError")
             ELSE IF ~outer.obj["result"].valid
             THEN caught
             ELSE Return(Some(outer.obj["result"].value))

\* run_adb of droid-tap.py
tap_run_adb(proc) ==
    IF proc.kind = "FileNotFoundError"
    THEN Exit(1, "Error: adb not found")
    ELSE IF proc.kind = "TimeoutExpired"
    THEN Exit(1, "Error: adb command timed out")
    ELSE IF proc.returncode # 0
    THEN Exit(1, adb_failure_message(proc.stderr))
    ELSE Return(Some(proc.stdout))

\* parse_content_provider of droid-tap.py: no exception is caught
tap_parse_content_provider(out) ==
    IF out[1].empty \/ ~out[1].prefix
    THEN Exit(1, "Error: unexpected response format")
    ELSE LET outer == out[1].outer
         IN  IF outer.type = "invalid"
             THEN Raise("JSONDecodeError")
             ELSE IF outer.type # "dict"
             THEN Raise("AttributeError")
             ELSE IF Get(outer.obj, "status", "") # "success"
             THEN Exit(1, "Error: query failed")
             ELSE IF "result" \notin DOMAIN outer.obj
             THEN Raise("KeyError")
             ELSE IF outer.obj["result"].type # "str"
             THEN Raise("TypeError")
             ELSE IF ~outer.obj["result"].valid
             THEN Raise("JSONDecodeError")
             ELSE Return(Some(outer.obj["result"].value))

\* run_adb of droid-observe.py
observe_run_adb(proc) ==
    IF proc.kind = "FileNotFoundError"
    THEN Exit(1, "Error: adb not found")
    ELSE IF proc.kind = "TimeoutExpired"
    THEN Exit(1, "Error: adb command timed out")
    ELSE IF proc.returncode # 0
    THEN Exit(1, adb_failure_message(proc.stderr))
    ELSE Return(Some(proc.stdout))

\* parse_content_provider of droid-observe.py: no exception is caught
observe_parse_content_provider(out) ==
    IF out[1].empty \/ ~out[1].prefix
    THEN Exit(1, "Error: unexpected response format")
    ELSE LET outer == out[1].outer
         IN  IF outer.type = "invalid"
             THEN Raise("JSONDecodeError")
             ELSE IF outer.type # "dict"
             THEN Raise("AttributeError")
             ELSE IF Get(outer.obj, "status", "") # "success"
             THEN Exit(1, "Error: query failed")
             ELSE IF "result" \notin DOMAIN outer.obj
             THEN Raise("KeyError")
             ELSE IF outer.obj["result"].type # "str"
             THEN Raise("TypeError")
             ELSE IF ~outer.obj["result"].valid
             THEN Raise("JSONDecodeError")
             ELSE Return(Some(outer.obj["result"].value))

-----------------------------------------------------------------------------
(* A fail-fast command: query the snapshot, decode it, go on with it
   (droid-tap-index.py and droid-longpress.py on droidutils, droid-tap.py
   and droid-observe.py on their own copies) *)

\* droid-tap-index.py and droid-longpress.py import the droidutils functions
FastScripts == {"droid-tap-index", "droid-longpress", "droid-tap", "droid-observe"}

script_run_adb(script, proc) ==
    IF script \in {"droid-tap-index", "droid-longpress"} THEN run_adb(proc, TRUE)
    ELSE IF script = "droid-tap" THEN tap_run_adb(proc)
    ELSE observe_run_adb(proc)

script_parse_content_provider(script, out) ==
    IF script \in {"droid-tap-index", "droid-longpress"} THEN parse_content_provider(out, TRUE)
    ELSE IF script = "droid-tap" THEN tap_parse_content_provider(out)
    ELSE observe_parse_content_provider(out)

InitFast ==
    /\ pc = "run_adb"
    /\ args \in [script : FastScripts]
    /\ tree = <<>>
    /\ element = <<>>
    /\ ret = <<>>
    /\ blockers = <<>>
    /\ now = 0
    /\ start = 0
    /\ elapsed = 0
    /\ attempt = 0
    /\ output = <<>>
    /\ exit = ""
    /\ log = [message |-> "", later |-> FALSE]

\* how a step's outcome ends the command: sys.exit(1) after the message, or
\* an uncaught exception (the interpreter prints the traceback, status 1)
Ends(res) ==
    /\ pc' = "done"
    /\ exit' = IF res.tag = "exit" THEN "exit" ELSE "traceback"
    /\ log' = [message |-> IF res.tag = "exit" THEN res.message ELSE res.exc,
               later |-> log.later]

\* output = run_adb([...a11y_tree])
FastRunAdb ==
    /\ pc = "run_adb"
    /\ \E proc \in FastProcResults :
           LET res == script_run_adb(args.script, proc)
           IN  /\ output' = proc
               /\ IF res.tag = "return"
                  THEN /\ ret' = res.value
                       /\ pc' = "parse"
                       /\ UNCHANGED <<exit, log>>
                  ELSE /\ Ends(res)
                       /\ UNCHANGED ret
    /\ UNCHANGED <<tree, element, args, blockers, now, start, elapsed, attempt>>

\* tree = parse_content_provider(output)
FastParse ==
    /\ pc = "parse"
    /\ LET res == script_parse_content_provider(args.script, ret)
       IN  IF res.tag = "return"
           THEN /\ tree' = res.value
                /\ pc' = "later"
                /\ UNCHANGED <<exit, log>>
           ELSE /\ Ends(res)
                /\ UNCHANGED tree
    /\ UNCHANGED <<element, args, ret, blockers, now, start, elapsed, attempt, output>>

\* the steps of the command that follow the decoding
FastLater ==
    /\ pc = "later"
    /\ pc' = "done"
    /\ log' = [log EXCEPT !.later = TRUE]
    /\ UNCHANGED <<tree, element, args, ret, blockers, now, start, elapsed, attempt, output, exit>>

NextFast == FastRunAdb \/ FastParse \/ FastLater

SpecFast == InitFast /\ [][NextFast]_vars

\* the error kinds of a response, by its shape
UndecodableJson(proc) ==
    /\ proc.kind = "completed" /\ proc.returncode = 0
    /\ ~proc.stdout.empty /\ proc.stdout.prefix
    /\ \/ proc.stdout.outer.type = "invalid"
       \/ /\ proc.stdout.outer.type = "dict"
          /\ DOMAIN proc.stdout.outer.obj = {"status", "result"}
          /\ proc.stdout.outer.obj["status"] = "success"
          /\ proc.stdout.outer.obj["result"].type = "str"
          /\ ~proc.stdout.outer.obj["result"].valid

MissingResultField(proc) ==
    /\ proc.kind = "completed" /\ proc.returncode = 0
    /\ ~proc.stdout.empty /\ proc.stdout.prefix
    /\ proc.stdout.outer.type = "dict"
    /\ DOMAIN proc.stdout.outer.obj = {"status"}
    /\ proc.stdout.outer.obj["status"] = "success"

NonSuccessStatus(proc) ==
    /\ proc.kind = "completed" /\ proc.returncode = 0
    /\ ~proc.stdout.empty /\ proc.stdout.prefix
    /\ proc.stdout.outer.type = "dict"
    /\ \/ "status" \notin DOMAIN proc.stdout.outer.obj
       \/ proc.stdout.outer.obj["status"] # "success"

ListedError(proc) ==
    \/ proc.kind \in {"FileNotFoundError", "TimeoutExpired"}
    \/ proc.returncode # 0
    \/ proc.stdout.empty
    \/ ~proc.stdout.prefix
    \/ UndecodableJson(proc)
    \/ NonSuccessStatus(proc)
    \/ MissingResultField(proc)

Diagnostics ==
    { "Error: adb not found", "Error: adb command timed out",
      "Error: no Android device connected", "Error: adb failed",
      "Error: empty response from ContentProvider",
      "Error: unexpected response format", "Error: query failed",
      "Error: JSON parse failed" }

\* C12: on the fail-fast path (droidutils with check=True and the copies of
\* droid-tap.py / droid-observe.py) every error kind (adb not found, adb
\* timeout, non-zero exit, empty response, wrong prefix, undecodable JSON,
\* non-success status, missing result field) ends the command with a
\* descriptive diagnostic and a non-zero status, and no later step runs.
C12_Original ==
    (pc = "done" /\ ListedError(output)) =>
        /\ exit = "exit"
        /\ log.message \in Diagnostics
        /\ ~log.later

-----------------------------------------------------------------------------
(* query_tree_with_retry *)

MAX_RETRIES == 3

\* the for loop is run for max_retries in 0..MaxRetries
MaxRetries == 3

\* a decoded JSON value: a list [type |-> "list", items |-> forest], a root
\* object [type |-> "dict", node |-> node], the object without any key
\* [type |-> "dict", empty |-> TRUE]
EmptyObject == [type |-> "dict", empty |-> TRUE]

\* `if tree_data:` on a decoded value
TruthyJson(v) ==
    IF v.type = "list" THEN v.items # <<>> ELSE "node" \in DOMAIN v

assign_indices_roots_only(nodes, counter) ==
    [nodes |-> [i \in 1..Len(nodes) |-> With(nodes[i], "index", counter + i - 1)],
     counter |-> counter + Len(nodes)]

\* query_tree_with_retry.assign_indices(nodes) with counter[0] = counter: the
\* list after the call and the counter after it
RECURSIVE assign_indices(_, _)
assign_indices(nodes, counter) ==
    IF nodes = <<>>
    THEN [nodes |-> <<>>, counter |-> counter]
    ELSE LET node == Head(nodes)
             kids == assign_indices(Get(node, "children", <<>>), counter + 1)
             numbered == With(node, "index", counter)
             done == IF "children" \in DOMAIN node
                     THEN With(numbered, "children", kids.nodes)
                     ELSE numbered
             rest == assign_indices(Tail(nodes), kids.counter)
         IN  [nodes |-> <<done>> \o rest.nodes, counter |-> rest.counter]

\* lines 159-171: what the call returns for a truthy tree_data
retry_result(tree_data, full) ==
    IF full /\ tree_data.type = "dict"
    THEN [type |-> "list", items |-> assign_indices(<<tree_data.node>>, 1).nodes]
    ELSE tree_data

\* RETRY_DELAY = 0.5 seconds, in milliseconds
RETRY_DELAY_MS == 500

RetryKinds ==
    { [text |-> <<"OK">>],
      [index |-> 7, text |-> <<"Login">>],
      [index |-> 1, className |-> <<"FrameLayout">>] }

Plain(a, i) == a

\* the root objects of the full variant: trees of at most MaxNodes nodes
RetryRoots == { f[1] : f \in { g \in Forests(RetryKinds, Plain) : Len(g) = 1 } }

RetryValues ==
    { [type |-> "list", items |-> f] : f \in WaitSnapshots }
    \cup { [type |-> "dict", node |-> n] : n \in RetryRoots }
    \cup { EmptyObject }

\* the response `Row: 0 result={"status": "success", "result": "<v>"}`
Envelope(v) ==
    [kind |-> "completed", returncode |-> 0,
     stdout |-> [empty |-> FALSE, prefix |-> TRUE,
                 outer |-> [type |-> "dict",
                            obj |-> [status |-> "success",
                                     result |-> [type |-> "str", valid |-> TRUE, value |-> v]]]]]

RetryProcResults ==
    { r \in FastProcResults :
        \/ r.kind # "completed"
        \/ r.returncode # 0
        \/ r.stdout.empty
        \/ ~r.stdout.prefix
        \/ r.stdout.outer.type # "dict"
        \/ DOMAIN r.stdout.outer.obj # {"status", "result"}
        \/ r.stdout.outer.obj["result"].type # "str"
        \/ ~r.stdout.outer.obj["result"].valid }
    \cup { Envelope(v) : v \in RetryValues }

RetryArgs == [max_retries : 0..MaxRetries, delay : {0, RETRY_DELAY_MS}, full : BOOLEAN]

InitRetry ==
    /\ pc = "for"
    /\ args \in RetryArgs
    /\ tree = <<>>
    /\ element = <<>>
    /\ ret = <<>>
    /\ blockers = <<>>
    /\ now = 0
    /\ start = 0
    /\ elapsed = 0
    /\ attempt = 0
    /\ output = <<>>
    /\ exit = ""
    /\ log = [attempts |-> 0, sleeps |-> 0, last |-> "none"]

\* line 152: for attempt in range(max_retries); line 174 when it is exhausted
RetryFor ==
    /\ pc = "for"
    /\ IF attempt < args.max_retries
       THEN /\ pc' = "attempt"
            /\ UNCHANGED <<ret, exit>>
       ELSE /\ pc' = "done"
            /\ ret' = None
            /\ exit' = "return"
    /\ UNCHANGED <<tree, element, args, blockers, now, start, elapsed, attempt, output, log>>

\* lines 153-172: one query attempt
RetryAttempt ==
    /\ pc = "attempt"
    /\ \E proc \in RetryProcResults :
           LET ran == run_adb(proc, FALSE)
               parsed == parse_content_provider(ran.value, FALSE)
           IN  /\ output' = proc
               /\ log' = [log EXCEPT !.attempts = @ + 1, !.last = "attempt"]
               /\ IF ran.tag # "return" \/ parsed.tag # "return"
                  THEN /\ pc' = "done"
                       /\ exit' = IF ran.tag # "return" THEN ran.tag ELSE parsed.tag
                       /\ UNCHANGED <<ret, attempt>>
                  ELSE IF parsed.value # None /\ TruthyJson(parsed.value[1])
                  THEN /\ pc' = "done"
                       /\ exit' = "return"
                       /\ ret' = Some(retry_result(parsed.value[1], args.full))
                       /\ UNCHANGED attempt
                  ELSE IF attempt < args.max_retries - 1
                  THEN /\ pc' = "sleep"
                       /\ UNCHANGED <<ret, exit, attempt>>
                  ELSE /\ pc' = "for"
                       /\ attempt' = attempt + 1
                       /\ UNCHANGED <<ret, exit>>
    /\ UNCHANGED <<tree, element, args, blockers, now, start, elapsed>>

\* line 173: time.sleep(delay)
RetrySleep ==
    /\ pc = "sleep"
    /\ now' = now + args.delay
    /\ log' = [log EXCEPT !.sleeps = @ + 1, !.last = "sleep"]
    /\ attempt' = attempt + 1
    /\ pc' = "for"
    /\ UNCHANGED <<tree, element, args, ret, blockers, start, elapsed, output, exit>>

NextRetry == RetryFor \/ RetryAttempt \/ RetrySleep

SpecRetry == InitRetry /\ [][NextRetry]_vars

\* the response is a well-formed envelope whose result decodes to one object
DecodesToObject(proc) ==
    /\ proc.kind = "completed" /\ proc.returncode = 0
    /\ ~proc.stdout.empty /\ proc.stdout.prefix
    /\ proc.stdout.outer.type = "dict"
    /\ DOMAIN proc.stdout.outer.obj = {"status", "result"}
    /\ proc.stdout.outer.obj["status"] = "success"
    /\ proc.stdout.outer.obj["result"].type = "str"
    /\ proc.stdout.outer.obj["result"].valid
    /\ proc.stdout.outer.obj["result"].value.type = "dict"

DecodedValue(proc) == proc.stdout.outer.obj["result"].value

ProperPrefix(x, y) == Len(x) < Len(y) /\ \A i \in 1..Len(x) : x[i] = y[i]

OwnAttributes(node) == Restrict(node, DOMAIN node \ {"index", "children"})

\* forest r is the root object numbered in pre-order from 1
NumberedFrom1(root, r) ==
    LET P == PathsOf(<<root>>)
        N == Cardinality(P)
    IN  /\ Len(r) = 1
        /\ PathsOf(r) = P
        /\ \A x \in P :
               /\ OwnAttributes(NodeAt(r, x)) = OwnAttributes(NodeAt(<<root>>, x))
               /\ ("children" \in DOMAIN NodeAt(r, x)) = ("children" \in DOMAIN NodeAt(<<root>>, x))
               /\ "index" \in DOMAIN NodeAt(r, x)
        /\ { NodeAt(r, x)["index"] : x \in P } = 1..N
        /\ \A x, y \in P : ProperPrefix(x, y) => NodeAt(r, x)["index"] < NodeAt(r, y)["index"]
        /\ \A k \in 1..N : PreOrder(r)[k]["index"] = k

\* C13 as stated: with full=True, whenever the response decodes to a single
\* root object the call returns that root wrapped in a list and numbered in
\* pre-order from 1 (N nodes get exactly 1..N, each once, a node's index is
\* smaller than each descendant's, an index carried before is overwritten).
C13_Original ==
    (pc = "done" /\ exit = "return" /\ log.attempts > 0 /\ args.full /\ DecodesToObject(output)) =>
        /\ ret # None
        /\ ret[1].type = "list"
        /\ IF DecodedValue(output) = EmptyObject
           THEN Len(ret[1].items) = 1
           ELSE NumberedFrom1(DecodedValue(output).node, ret[1].items)

\* C13: the same for a root object that holds at least one key; the object
\* without keys is falsy at line 159 and counts as a failed attempt.
C13_AssignIndicesPreOrder ==
    (/\ pc = "done" /\ exit = "return" /\ log.attempts > 0 /\ args.full
     /\ DecodesToObject(output) /\ DecodedValue(output) # EmptyObject) =>
        /\ ret # None
        /\ ret[1].type = "list"
        /\ NumberedFrom1(DecodedValue(output).node, ret[1].items)

\* a three-node root whose nodes carried the indices 7 and 1 comes back as 1, 2, 3
C13_Witness ==
    /\ pc = "done" /\ exit = "return" /\ log.attempts > 0 /\ args.full
    /\ DecodesToObject(output) /\ DecodedValue(output) # EmptyObject
    /\ Cardinality(PathsOf(<<DecodedValue(output).node>>)) = 3
    /\ GetOpt(DecodedValue(output).node, "index") = Some(7)
    /\ ret # None
    /\ ret[1].items[1]["index"] = 1
    /\ Len(Get(ret[1].items[1], "children", <<>>)) = 2
    /\ ret[1].items[1]["children"][2]["index"] = 3

-----------------------------------------------------------------------------
(* Formatting *)

\* short_class_name
short_class_name(class_name) == AfterLastDot(class_name)

\* s.rsplit("/", 1)[-1] if "/" in s else s
AfterLastSlash(s) ==
    IF \E i \in 1..Len(s) : s[i] = "/"
    THEN LET k == CHOOSE i \in 1..Len(s) :
                      /\ s[i] = "/"
                      /\ \A j \in (i + 1)..Len(s) : s[j] # "/"
         IN  SubSeq(s, k + 1, Len(s))
    ELSE s

\* short_resource_id
short_resource_id(resource_id) ==
    IF resource_id = <<>> \/ Contains(resource_id, <<"obfuscated">>)
    THEN <<>>
    ELSE AfterLastSlash(resource_id)

\* a or b, on the results of dict.get for a boolean state
PyOr(a, b) == IF a # None /\ a[1] THEN a ELSE b

\* a if a is not None else b
IfNotNone(a, b) == IF a # None THEN a ELSE b

\* text = node.get("text", "") or node.get("contentDescription", "")
display_text(node) ==
    IF Get(node, "text", <<>>) # <<>>
    THEN node["text"]
    ELSE Get(node, "contentDescription", <<>>)

\* format_element_json(node): the returned dict; a null value is None
format_element_json(node) ==
    LET bounds == get_bounds(node)
    IN  [index |-> GetOpt(node, "index"),
         text |-> display_text(node),
         className |-> short_class_name(Get(node, "className", <<>>)),
         bounds |-> bounds,
         center |-> IF bounds # <<>> THEN Some(center_of(bounds)) ELSE None,
         resourceId |-> short_resource_id(Get(node, "resourceId", <<>>)),
         checked |-> IfNotNone(GetOpt(node, "isChecked"), GetOpt(node, "checked")),
         enabled |-> IfNotNone(GetOpt(node, "isEnabled"), GetOpt(node, "enabled")),
         selected |-> PyOr(GetOpt(node, "isSelected"), GetOpt(node, "selected")),
         focused |-> PyOr(GetOpt(node, "isFocused"), GetOpt(node, "focused")),
         clickable |-> PyOr(GetOpt(node, "isClickable"), GetOpt(node, "clickable"))]

-----------------------------------------------------------------------------
(* format_element_json on one node *)

StateNames == {"checked", "enabled", "selected", "focused", "clickable"}

\* the key of the full variant for a state
FullKey(state) ==
    CASE state = "checked" -> "isChecked"
      [] state = "enabled" -> "isEnabled"
      [] state = "selected" -> "isSelected"
      [] state = "focused" -> "isFocused"
      [] state = "clickable" -> "isClickable"

JsonBases ==
    { [index |-> 4, text |-> <<"OK">>, className |-> <<"android", ".", "widget", ".", "Button">>,
       bounds |-> <<10, 10, 50, 30>>, resourceId |-> <<"com", ".", "app:id", "/", "ok">>],
      [contentDescription |-> <<"Login">>, className |-> <<"Switch">>,
       boundsInScreen |-> BoundsDict(<<-4, 0, 31, 9>>)],
      [text |-> <<"Submit">>, resourceId |-> <<"obfuscated", "/", "a">>] }

\* node with the state given under its full key (f) and its plain key (q);
\* None leaves the key out
WithState(node, state, f, q) ==
    LET a == IF f = None THEN node ELSE With(node, FullKey(state), f[1])
    IN  IF q = None THEN a ELSE With(a, state, q[1])

OptBools == {None, Some(TRUE), Some(FALSE)}

JsonNodes ==
    { WithState(b, st, f, q) : b \in JsonBases, st \in StateNames, f \in OptBools, q \in OptBools }

InitJson ==
    /\ pc = "call"
    /\ tree = <<>>
    /\ element \in JsonNodes
    /\ args = <<>>
    /\ ret = <<>>
    /\ blockers = <<>>
    /\ WaitIdle

CallFormatElementJson ==
    /\ pc = "call"
    /\ pc' = "format_element_json"
    /\ ret' = format_element_json(element)
    /\ UNCHANGED <<tree, element, args, blockers>>
    /\ UNCHANGED waitVars

NextJson == CallFormatElementJson

SpecJson == InitJson /\ [][NextJson]_vars

\* the values the source node gives for a state, under either key
SourceValues(node, state) ==
    { node[k] : k \in {FullKey(state), state} \cap DOMAIN node }

\* C14: format_element_json exposes each boolean state (checked, enabled,
\* selected, focused, clickable) as-is: true when the source says true, false
\* when the source says false, null only when the state is absent.
C14_Original ==
    pc = "format_element_json" =>
        \A st \in StateNames :
            /\ (ret[st] = None) <=> (SourceValues(element, st) = {})
            /\ SourceValues(element, st) = {TRUE} => ret[st] = Some(TRUE)
            /\ SourceValues(element, st) = {FALSE} => ret[st] = Some(FALSE)

-----------------------------------------------------------------------------
(* center_of and get_element_size on integer bounds *)

\* coordinates range over -MaxAbs..MaxAbs
MaxAbs == 3

CenterBounds ==
    { <<l, t, r, b>> : l \in -MaxAbs..MaxAbs, t \in -MaxAbs..MaxAbs,
                       r \in -MaxAbs..MaxAbs, b \in -MaxAbs..MaxAbs }

InitCenter ==
    /\ pc = "call"
    /\ tree = <<>>
    /\ element = <<>>
    /\ args \in { p \in CenterBounds : p[3] >= p[1] /\ p[4] >= p[2] }
    /\ ret = <<>>
    /\ blockers = <<>>
    /\ WaitIdle

CallCenterOf ==
    /\ pc = "call"
    /\ pc' = "center_of"
    /\ ret' = center_of(args)
    /\ UNCHANGED <<tree, element, args, blockers>>
    /\ UNCHANGED waitVars

CallGetElementSize ==
    /\ pc = "call"
    /\ pc' = "get_element_size"
    /\ ret' = get_element_size(args)
    /\ UNCHANGED <<tree, element, args, blockers>>
    /\ UNCHANGED waitVars

NextCenter == CallCenterOf \/ CallGetElementSize

SpecCenter == InitCenter /\ [][NextCenter]_vars

\* C15: for all integer bounds (l, t, r, b) with r >= l and b >= t, negative
\* coordinates included, center_of returns ((l+r)//2, (t+b)//2) by floor
\* division, a point with l <= x <= r and t <= y <= b; get_element_size
\* returns (r-l, b-t), both non-negative.
C15_CenterAndSize ==
    /\ pc = "center_of" =>
           /\ Len(ret) = 2
           /\ IsFloorCenter(ret, args)
           /\ args[1] <= ret[1] /\ ret[1] <= args[3]
           /\ args[2] <= ret[2] /\ ret[2] <= args[4]
    /\ pc = "get_element_size" =>
           /\ ret = <<args[3] - args[1], args[4] - args[2]>>
           /\ ret[1] >= 0 /\ ret[2] >= 0

\* the center of (-3, -2, 0, 1): the sums -3 and -1 are odd and negative,
\* floor division gives (-2, -1)
C15_Witness ==
    /\ pc = "center_of"
    /\ args = <<-3, -2, 0, 1>>
    /\ ret = <<-2, -1>>

-----------------------------------------------------------------------------
(* format_element: the line is the sequence of its space-separated parts *)

\* Python truth of the result of dict.get for a boolean state
TruthyOpt(a) == a # None /\ a[1]

\* "enabled=false" is appended whenever the enabled state is not truthy
format_element_states_not_enabled(node) ==
    LET is_checkable == GetOpt(node, "isCheckable")
        checked == IfNotNone(GetOpt(node, "isChecked"), GetOpt(node, "checked"))
        enabled == IfNotNone(GetOpt(node, "isEnabled"), GetOpt(node, "enabled"))
        selected == PyOr(GetOpt(node, "isSelected"), GetOpt(node, "selected"))
        focused == PyOr(GetOpt(node, "isFocused"), GetOpt(node, "focused"))
    IN  (IF (TruthyOpt(is_checkable) \/ checked # None) /\ checked # None
         THEN << IF checked[1] THEN "checked=true" ELSE "checked=false" >>
         ELSE <<>>)
        \o (IF ~TruthyOpt(enabled) THEN <<"enabled=false">> ELSE <<>>)
        \o (IF TruthyOpt(selected) THEN <<"selected=true">> ELSE <<>>)
        \o (IF TruthyOpt(focused) THEN <<"focused=true">> ELSE <<>>)

\* lines 561-584: the list `states`
format_element_states(node) ==
    LET is_checkable == GetOpt(node, "isCheckable")
        checked == IfNotNone(GetOpt(node, "isChecked"), GetOpt(node, "checked"))
        enabled == IfNotNone(GetOpt(node, "isEnabled"), GetOpt(node, "enabled"))
        selected == PyOr(GetOpt(node, "isSelected"), GetOpt(node, "selected"))
        focused == PyOr(GetOpt(node, "isFocused"), GetOpt(node, "focused"))
    IN  (IF (TruthyOpt(is_checkable) \/ checked # None) /\ checked # None
         THEN << IF checked[1] THEN "checked=true" ELSE "checked=false" >>
         ELSE <<>>)
        \o (IF enabled = Some(FALSE) THEN <<"enabled=false">> ELSE <<>>)
        \o (IF TruthyOpt(selected) THEN <<"selected=true">> ELSE <<>>)
        \o (IF TruthyOpt(focused) THEN <<"focused=true">> ELSE <<>>)

format_element_without_geometry(node, include_state) ==
    << [part |-> "index", value |-> GetOpt(node, "index")],
       [part |-> "class", value |-> short_class_name(Get(node, "className", <<>>))] >>

\* format_element(node, include_state); the index part holds None for "?"
format_element(node, include_state) ==
    LET text == display_text(node)
        bounds == get_bounds(node)
        class_name == short_class_name(Get(node, "className", <<>>))
        resource_id == short_resource_id(Get(node, "resourceId", <<>>))
        c == center_of(bounds)
        p == parse_bounds(bounds)
        states == format_element_states(node)
    IN  << [part |-> "index", value |-> GetOpt(node, "index")] >>
        \o (IF text # <<>> THEN << [part |-> "text", value |-> text] >> ELSE <<>>)
        \o (IF bounds # <<>>
            THEN << [part |-> "center", x |-> c[1], y |-> c[2]],
                    [part |-> "bounds", l |-> p[1], t |-> p[2], r |-> p[3], b |-> p[4]] >>
            ELSE <<>>)
        \o << [part |-> "class", value |-> class_name] >>
        \o (IF resource_id # <<>> THEN << [part |-> "id", value |-> resource_id] >> ELSE <<>>)
        \o (IF include_state /\ states # <<>>
            THEN << [part |-> "states", flags |-> states] >>
            ELSE <<>>)

-----------------------------------------------------------------------------
(* End to end: a FrameLayout root holding one OK button is flattened with
   every filter on, and the element that is left is formatted *)

EndRoots ==
    { [index |-> 1, className |-> <<"android", ".", "widget", ".", "FrameLayout">>],
      [index |-> 1, className |-> <<"FrameLayout">>, text |-> <<>>],
      [index |-> 1, className |-> <<"android", ".", "widget", ".", "FrameLayout">>,
       bounds |-> <<0, 0, 1080, 1920>>] }

EndButtonBases ==
    { [index |-> 2, className |-> c, text |-> <<"OK">>, bounds |-> <<10, 10, 50, 30>>] :
        c \in { <<"android", ".", "widget", ".", "Button">>, <<"Button">> } }

EndButtons ==
    EndButtonBases
    \cup { With(b, "resourceId", <<"com", ".", "app:id", "/", "ok">>) : b \in EndButtonBases }
    \cup { With(b, "clickable", TRUE) : b \in EndButtonBases }
    \cup { With(b, "isEnabled", FALSE) : b \in EndButtonBases }

\* screens that contain the button
EndScreens == { <<w, h>> : w \in {50, 1080}, h \in {30, 1920} }

InitEnd ==
    /\ pc = "call"
    /\ \E root \in EndRoots, button \in EndButtons :
           tree = << With(root, "children", <<button>>) >>
    /\ \E scr \in EndScreens, inc \in BOOLEAN :
           args = [kw |-> [DefaultFilterKw EXCEPT !.screen_width = Some(scr[1]),
                                                  !.screen_height = Some(scr[2])],
                   include_state |-> inc]
    /\ element = <<>>
    /\ ret = <<>>
    /\ blockers = <<>>
    /\ now = 0
    /\ start = 0
    /\ elapsed = 0
    /\ attempt = 0
    /\ output = <<>>
    /\ exit = ""
    /\ log = <<>>

\* elements = []; walk_tree(tree, elements, **filter_kwargs)
EndWalkTree ==
    /\ pc = "call"
    /\ pc' = "walk_tree"
    /\ ret' = walk_tree(tree, <<>>, args.kw)
    /\ UNCHANGED <<tree, element, args, blockers>>
    /\ UNCHANGED waitVars

\* format_element(el) for the first element of the list
EndFormatElement ==
    /\ pc = "walk_tree"
    /\ ret # <<>>
    /\ pc' = "format_element"
    /\ element' = ret[1]
    /\ output' = format_element(ret[1], args.include_state)
    /\ UNCHANGED <<tree, args, ret, blockers, now, start, elapsed, attempt, exit, log>>

NextEnd == EndWalkTree \/ EndFormatElement

SpecEnd == InitEnd /\ [][NextEnd]_vars

\* C16: for a snapshot of one root FrameLayout without text holding one
\* Button with text "OK" and bounds "10, 10, 50, 30", walk_tree with all four
\* filters on (a screen that contains the button) yields exactly one element,
\* the Button, and format_element of it reports center=(30,20) and
\* bounds=(10,10,50,30).
C16_EndToEnd ==
    /\ pc \in {"walk_tree", "format_element"} =>
           ret = << tree[1]["children"][1] >>
    /\ pc = "format_element" =>
           /\ \E i \in 1..Len(output) : output[i] = [part |-> "center", x |-> 30, y |-> 20]
           /\ \E i \in 1..Len(output) :
                  output[i] = [part |-> "bounds", l |-> 10, t |-> 10, r |-> 50, b |-> 30]

\* on a 50 x 30 screen the button, formatted, reads
\* [2] "OK" center=(30,20) bounds=(10,10,50,30) class=Button id=ok
C16_Witness ==
    /\ pc = "format_element"
    /\ args.kw.screen_width = Some(50) /\ args.kw.screen_height = Some(30)
    /\ Len(ret) = 1
    /\ output = << [part |-> "index", value |-> Some(2)],
                   [part |-> "text", value |-> <<"OK">>],
                   [part |-> "center", x |-> 30, y |-> 20],
                   [part |-> "bounds", l |-> 10, t |-> 10, r |-> 50, b |-> 30],
                   [part |-> "class", value |-> <<"Button">>],
                   [part |-> "id", value |-> <<"ok">>] >>

-----------------------------------------------------------------------------
(* A target under a blocker that covers it: find_clear_point on the pair,
   then get_tap_point on the snapshot that holds both *)

CoverTargets ==
    { <<l, t, r, b>> : l \in {0, 10}, t \in {0, 10}, r \in {10, 50, 100}, b \in {10, 50, 100} }

\* the rectangles that contain target p, by margins of 0 or 5
Covering(p) ==
    { <<p[1] - dl, p[2] - dt, p[3] + dr, p[4] + db>> :
        dl \in {0, 5}, dt \in {0, 5}, dr \in {0, 5}, db \in {0, 5} }

CoverOthers == { <<0, 0, 30, 30>>, <<40, 40, 60, 60>>, <<200, 200, 300, 300>> }

\* blocker lists that hold a rectangle containing p
CoverLists(p) ==
    { <<c>> : c \in Covering(p) }
    \cup { <<c, o>> : c \in {p, <<p[1] - 5, p[2], p[3], p[4] + 5>>}, o \in CoverOthers }
    \cup { <<o, c>> : c \in {p, <<p[1] - 5, p[2], p[3], p[4] + 5>>}, o \in CoverOthers }

\* the target as node 1, the blockers after it with the indices 2, 3, ...
CoverForest(p, bl) ==
    << [index |-> 1, text |-> <<"OK">>, bounds |-> p] >>
    \o [i \in 1..Len(bl) |-> [index |-> i + 1, bounds |-> bl[i]]]

InitCover ==
    /\ pc = "call"
    /\ \E p \in CoverTargets :
           \E bl \in CoverLists(p) :
               /\ args = [bounds |-> p, blockers |-> bl]
               /\ tree = CoverForest(p, bl)
               /\ element = CoverForest(p, bl)[1]
    /\ ret = <<>>
    /\ blockers = <<>>
    /\ WaitIdle

CoverFindClearPoint ==
    /\ pc = "call"
    /\ pc' = "find_clear_point"
    /\ ret' = find_clear_point(args.bounds, args.blockers, 0, DEFAULT_MAX_DEPTH)
    /\ UNCHANGED <<tree, element, args, blockers>>
    /\ UNCHANGED waitVars

CoverGetTapPoint ==
    /\ pc = "find_clear_point"
    /\ pc' = "get_tap_point"
    /\ blockers' = get_tap_point_blockers(element, tree)
    /\ output' = get_tap_point(element, tree)
    /\ UNCHANGED <<tree, element, args, ret>>
    /\ UNCHANGED <<now, start, elapsed, attempt, exit, log>>

NextCover == CoverFindClearPoint \/ CoverGetTapPoint

SpecCover == InitCover /\ [][NextCover]_vars

\* C17: when a blocker with a higher index covers the whole target (target
\* (0,0,100,100) under blocker (0,0,100,100), and any blocker rectangle that
\* contains the target rectangle), quadrant subdivision returns none, every
\* tested center being blocked, and get_tap_point falls back to the target's
\* center.
C17_CoveredTargetFallsBack ==
    /\ pc \in {"find_clear_point", "get_tap_point"} => ret = None
    /\ pc = "get_tap_point" =>
           /\ output # None
           /\ IsFloorCenter(output[1], args.bounds)

\* target (0,0,100,100) under the blocker (0,0,100,100): no clear point, tap at (50,50)
C17_Witness ==
    /\ pc = "get_tap_point"
    /\ args.bounds = <<0, 0, 100, 100>>
    /\ blockers = << <<0, 0, 100, 100>> >>
    /\ ret = None
    /\ output = Some(<<50, 50>>)

-----------------------------------------------------------------------------
(* A target whose top-left quadrant lies under one blocker *)

\* widths and heights of the targets
QuadSizes == {1, 2, 3, 5, 9, 10, 11, 20, 50, 100}

QuadTargets ==
    { <<l, t, l + w, t + h>> : l \in {-7, 0, 10}, t \in {-7, 0}, w \in QuadSizes, h \in QuadSizes }

\* the top-left quadrant of p, as find_clear_point splits it
TopLeftQuadrant(p) == <<p[1], p[2], FloorDiv2(p[1] + p[3]), FloorDiv2(p[2] + p[4])>>

\* blockers whose part inside p is p's top-left quadrant
QuadBlockers(p) ==
    { <<TopLeftQuadrant(p)[1] - dl, TopLeftQuadrant(p)[2] - dt,
        TopLeftQuadrant(p)[3], TopLeftQuadrant(p)[4]>> : dl \in {0, 5}, dt \in {0, 5} }

InitQuad ==
    /\ pc = "call"
    /\ \E p \in QuadTargets :
           \E q \in QuadBlockers(p) :
               /\ args = [bounds |-> p, blockers |-> <<q>>]
               /\ tree = CoverForest(p, <<q>>)
               /\ element = CoverForest(p, <<q>>)[1]
    /\ ret = <<>>
    /\ blockers = <<>>
    /\ WaitIdle

QuadGetTapPoint ==
    /\ pc = "call"
    /\ pc' = "get_tap_point"
    /\ blockers' = get_tap_point_blockers(element, tree)
    /\ ret' = get_tap_point(element, tree)
    /\ UNCHANGED <<tree, element, args>>
    /\ UNCHANGED waitVars

NextQuad == QuadGetTapPoint

SpecQuad == InitQuad /\ [][NextQuad]_vars

\* point pt lies in the top-right, bottom-left or bottom-right quadrant of p
\* and outside the rectangle q (edges inclusive)
InOtherQuadrantOutside(pt, p, q) ==
    LET cx == TopLeftQuadrant(p)[3]
        cy == TopLeftQuadrant(p)[4]
    IN  /\ p[1] <= pt[1] /\ pt[1] <= p[3]
        /\ p[2] <= pt[2] /\ pt[2] <= p[4]
        /\ pt[1] >= cx \/ pt[2] >= cy
        /\ ~(q[1] <= pt[1] /\ pt[1] <= q[3] /\ q[2] <= pt[2] /\ pt[2] <= q[4])

\* C18 as stated: for a target with a single higher-index blocker covering
\* only its top-left quadrant, get_tap_point returns a point in one of the
\* other three quadrants of the target and outside the blocker.
C18_Original ==
    pc = "get_tap_point" =>
        /\ ret # None
        /\ InOtherQuadrantOutside(ret[1], args.bounds, args.blockers[1])

\* C18: the same for a target at least 2 wide and 2 high whose area is at
\* least 100, the smallest area find_clear_point subdivides.
C18_QuadrantBlockerAvoided ==
    (/\ pc = "get_tap_point"
     /\ args.bounds[3] - args.bounds[1] >= 2
     /\ args.bounds[4] - args.bounds[2] >= 2
     /\ (args.bounds[3] - args.bounds[1]) * (args.bounds[4] - args.bounds[2]) >= MIN_SUBDIVIDE_AREA) =>
        /\ ret # None
        /\ InOtherQuadrantOutside(ret[1], args.bounds, args.blockers[1])

\* target (0,0,100,100) with (0,0,50,50) blocked: the tap goes to (75,25),
\* the center of the top-right quadrant
C18_Witness ==
    /\ pc = "get_tap_point"
    /\ args.bounds = <<0, 0, 100, 100>>
    /\ blockers = << <<0, 0, 50, 50>> >>
    /\ ret = Some(<<75, 25>>)

-----------------------------------------------------------------------------
(* droid-windows.py: parse_windows.  A dump is the sequence of its pieces:
   [match |-> TRUE, hash, name, frame, region] where window_pattern matches,
   [match |-> FALSE] for text it does not match.  A region string is
   [ints |-> the integers between "((" and "))", spaced |-> whether blanks
   follow the commas]. *)

\* a dump holds at most MaxWindows pieces
MaxWindows == 3

\* str.strip() on a token sequence: leading and trailing blanks go
RECURSIVE Strip(_)
Strip(s) ==
    IF s = <<>> THEN s
    ELSE IF Head(s) = " " THEN Strip(Tail(s))
    ELSE IF s[Len(s)] = " " THEN Strip(SubSeq(s, 1, Len(s) - 1))
    ELSE s

\* parse_region: the pattern wants exactly four integers split by bare commas
parse_region(region_str) ==
    IF Len(region_str.ints) = 4 /\ ~region_str.spaced
    THEN Some(region_str.ints)
    ELSE None

\* lines 44-67 for one match: the window dict, or None without a region
window_of(match) ==
    LET region == parse_region(match.region)
    IN  IF region # None
        THEN Some([name |-> Strip(match.name),
                   hash |-> match.hash,
                   frame |-> match.frame,
                   touchable_region |-> region[1],
                   center |-> <<FloorDiv2(region[1][1] + region[1][3]),
                                FloorDiv2(region[1][2] + region[1][4])>>])
        ELSE None

\* a hash counts as seen only once it gave a window
RECURSIVE parse_windows_walk_seen_late(_, _, _)
parse_windows_walk_seen_late(pieces, windows, seen_hashes) ==
    IF pieces = <<>>
    THEN windows
    ELSE LET piece == Head(pieces)
         IN  IF ~piece.match \/ piece.hash \in seen_hashes
             THEN parse_windows_walk_seen_late(Tail(pieces), windows, seen_hashes)
             ELSE IF window_of(piece) # None
             THEN parse_windows_walk_seen_late(Tail(pieces), Append(windows, window_of(piece)[1]),
                                               seen_hashes \cup {piece.hash})
             ELSE parse_windows_walk_seen_late(Tail(pieces), windows, seen_hashes)

\* the loop of lines 43-67 over the rest of the matches
RECURSIVE parse_windows_walk(_, _, _)
parse_windows_walk(pieces, windows, seen_hashes) ==
    IF pieces = <<>>
    THEN windows
    ELSE LET piece == Head(pieces)
         IN  IF ~piece.match \/ piece.hash \in seen_hashes
             THEN parse_windows_walk(Tail(pieces), windows, seen_hashes)
             ELSE parse_windows_walk(Tail(pieces),
                      IF window_of(piece) # None
                      THEN Append(windows, window_of(piece)[1])
                      ELSE windows,
                      seen_hashes \cup {piece.hash})

\* parse_windows(dumpsys_output)
parse_windows(dumpsys_output) == parse_windows_walk(dumpsys_output, <<>>, {})

-----------------------------------------------------------------------------
(* parse_windows on a dump *)

WindowHashes == {"1a2b3c", "4d5e6f"}

WindowNames == { <<"Bubbles">>, <<"StatusBar", " ">> }

RegionStrs ==
    { [ints |-> <<-39, 1439, 183, 1661>>, spaced |-> FALSE],
      [ints |-> <<0, 0, 1080>>, spaced |-> FALSE],
      [ints |-> <<0, 0, 1080, 2400>>, spaced |-> TRUE] }

DumpPieces ==
    { [match |-> FALSE] }
    \cup { [match |-> TRUE, hash |-> h, name |-> n, frame |-> <<0, 0, 1080, 2400>>, region |-> g] :
             h \in WindowHashes, n \in WindowNames, g \in RegionStrs }

Dumps == UNION { [1..n -> DumpPieces] : n \in 0..MaxWindows }

InitWindows ==
    /\ pc = "call"
    /\ tree = <<>>
    /\ element = <<>>
    /\ args \in Dumps
    /\ ret = <<>>
    /\ blockers = <<>>
    /\ WaitIdle

CallParseWindows ==
    /\ pc = "call"
    /\ pc' = "parse_windows"
    /\ ret' = parse_windows(args)
    /\ UNCHANGED <<tree, element, args, blockers>>
    /\ UNCHANGED waitVars

NextWindows == CallParseWindows

SpecWindows == InitWindows /\ [][NextWindows]_vars

\* the places in the dump where hash h occurs
Occurrences(dump, h) == { k \in 1..Len(dump) : dump[k].match /\ dump[k].hash = h }

FirstOccurrence(dump, h) ==
    CHOOSE k \in Occurrences(dump, h) : \A j \in Occurrences(dump, h) : k <= j

\* C19: parse_windows returns no two windows with the same hash: for every
\* hash that occurs in the dump, the entry in the result (if any) is built
\* from the first occurrence of that hash, in dump order, and later
\* occurrences never add or replace an entry.
C19_FirstOccurrenceWins ==
    pc = "parse_windows" =>
        /\ \A i, j \in 1..Len(ret) : i # j => ret[i].hash # ret[j].hash
        /\ \A i \in 1..Len(ret) : Occurrences(args, ret[i].hash) # {}
        /\ \A i, j \in 1..Len(ret) :
               i < j => FirstOccurrence(args, ret[i].hash) < FirstOccurrence(args, ret[j].hash)
        /\ \A h \in WindowHashes :
               Occurrences(args, h) # {} =>
                   LET first == args[FirstOccurrence(args, h)]
                       entries == { i \in 1..Len(ret) : ret[i].hash = h }
                   IN  IF window_of(first) = None
                       THEN entries = {}
                       ELSE /\ Cardinality(entries) = 1
                            /\ \A i \in entries : ret[i] = window_of(first)[1]

\* a hash whose first occurrence has no usable region and whose second has
\* one gives no window; the other hash gives one
C19_Witness ==
    /\ pc = "parse_windows"
    /\ Len(args) = 3
    /\ args[1].match /\ args[2].match /\ args[3].match
    /\ args[1].hash = args[2].hash /\ args[3].hash # args[1].hash
    /\ window_of(args[1]) = None
    /\ window_of(args[2]) # None
    /\ window_of(args[3]) # None
    /\ ret = << window_of(args[3])[1] >>

-----------------------------------------------------------------------------
(* parse_bounds on the text of a bounds string, character by character *)

\* a bounds string holds at most MaxFields comma-separated fields
MaxFields == 5

Digits == {"0", "1", "2", "3", "4", "5", "6", "7", "8", "9"}

DigitOf(c) ==
    CASE c = "0" -> 0 [] c = "1" -> 1 [] c = "2" -> 2 [] c = "3" -> 3 [] c = "4" -> 4
      [] c = "5" -> 5 [] c = "6" -> 6 [] c = "7" -> 7 [] c = "8" -> 8 [] c = "9" -> 9

\* bounds.split(","): the fields, with `cur` the field being read
RECURSIVE split_commas(_, _, _)
split_commas(s, cur, acc) ==
    IF s = <<>>
    THEN Append(acc, cur)
    ELSE IF Head(s) = ","
    THEN split_commas(Tail(s), <<>>, Append(acc, cur))
    ELSE split_commas(Tail(s), Append(cur, Head(s)), acc)

\* the value of a run of digits and underscores, read after `acc`
RECURSIVE digits_value(_, _)
digits_value(s, acc) ==
    IF s = <<>> THEN acc
    ELSE IF Head(s) = "_" THEN digits_value(Tail(s), acc)
    ELSE digits_value(Tail(s), 10 * acc + DigitOf(Head(s)))

\* int(x.strip()): blanks around, an optional sign, digits that single
\* underscores may separate; anything else is a ValueError
int_of(x) ==
    LET stripped == Strip(x)
        signed == stripped # <<>> /\ Head(stripped) \in {"+", "-"}
        body == IF signed THEN Tail(stripped) ELSE stripped
        wellFormed ==
            /\ body # <<>>
            /\ \A i \in 1..Len(body) : body[i] \in Digits \cup {"_"}
            /\ body[1] \in Digits /\ body[Len(body)] \in Digits
            /\ \A i \in 1..(Len(body) - 1) : ~(body[i] = "_" /\ body[i + 1] = "_")
    IN  IF ~wellFormed
        THEN Raise("ValueError")
        ELSE Return(IF signed /\ Head(stripped) = "-"
                    THEN -digits_value(body, 0)
                    ELSE digits_value(body, 0))

\* only the first four fields are converted
parse_bounds_str_first_four(bounds) ==
    LET fields == split_commas(bounds, <<>>, <<>>)
    IN  IF Len(fields) < 4
        THEN Raise("IndexError")
        ELSE IF \E i \in 1..4 : int_of(fields[i]).tag = "raise"
        THEN Raise("ValueError")
        ELSE Return([i \in 1..4 |-> int_of(fields[i]).value])

\* parse_bounds, string branch (lines 193-195), on the characters of the
\* string: every field is converted before the first four are taken
parse_bounds_str(bounds) ==
    LET fields == split_commas(bounds, <<>>, <<>>)
    IN  IF \E i \in 1..Len(fields) : int_of(fields[i]).tag = "raise"
        THEN Raise("ValueError")
        ELSE IF Len(fields) < 4
        THEN Raise("IndexError")
        ELSE Return([i \in 1..4 |-> int_of(fields[i]).value])

\* fields of a bounds string: the text, and the integer it stands for (None
\* when it is not a number)
BoundsFields ==
    { [text |-> <<"1", "2">>, value |-> Some(12)],
      [text |-> <<" ", "7">>, value |-> Some(7)],
      [text |-> <<"-", "3", " ">>, value |-> Some(-3)],
      [text |-> <<"1", "_", "0">>, value |-> Some(10)],
      [text |-> <<>>, value |-> None],
      [text |-> <<"x">>, value |-> None] }

\* the fields' texts with a comma between neighbours
RECURSIVE JoinCommas(_)
JoinCommas(fields) ==
    IF Len(fields) = 1
    THEN fields[1].text
    ELSE fields[1].text \o <<",">> \o JoinCommas(Tail(fields))

InitParse ==
    /\ pc = "call"
    /\ tree = <<>>
    /\ \E n \in 1..MaxFields :
           \E fields \in [1..n -> BoundsFields] :
               /\ element = fields
               /\ args = JoinCommas(fields)
    /\ ret = <<>>
    /\ blockers = <<>>
    /\ WaitIdle

CallParseBounds ==
    /\ pc = "call"
    /\ pc' = "parse_bounds"
    /\ ret' = parse_bounds_str(args)
    /\ UNCHANGED <<tree, element, args, blockers>>
    /\ UNCHANGED waitVars

NextParse == CallParseBounds

SpecParse == InitParse /\ [][NextParse]_vars

NumericFields(fields) == { i \in 1..Len(fields) : fields[i].value # None }

\* C20 as stated: parse_bounds on a string fails with a parse error, and
\* returns no tuple, if and only if the string has fewer than 4
\* comma-separated numeric fields; with 4 numeric fields it returns them as
\* the integer tuple (l, t, r, b).
C20_Original ==
    pc = "parse_bounds" =>
        /\ (ret.tag = "raise") <=> (Cardinality(NumericFields(element)) < 4)
        /\ (Len(element) = 4 /\ Cardinality(NumericFields(element)) = 4) =>
               ret = Return([i \in 1..4 |-> element[i].value[1]])

\* C20: parse_bounds on a string fails (ValueError, IndexError), and returns
\* no tuple, if and only if some comma-separated field is not an integer or
\* there are fewer than 4 fields; otherwise it returns the first four fields
\* as the integer tuple (l, t, r, b).
C20_ParseBoundsFailsIff ==
    pc = "parse_bounds" =>
        LET illFormed == \/ NumericFields(element) # 1..Len(element)
                         \/ Len(element) < 4
        IN  /\ ret.tag \in {"raise", "return"}
            /\ (ret.tag = "raise") <=> illFormed
            /\ ret.tag = "raise" => ret.exc \in {"ValueError", "IndexError"}
            /\ ~illFormed => ret = Return([i \in 1..4 |-> element[i].value[1]])

\* " 7,-3 ,12,1_0" parses to (7, -3, 12, 10)
C20_Witness ==
    /\ pc = "parse_bounds"
    /\ args = <<" ", "7", ",", "-", "3", " ", ",", "1", "2", ",", "1", "_", "0">>
    /\ ret = Return(<<7, -3, 12, 10>>)

\* the depth is not limited: only the area stops the subdivision
RECURSIVE find_clear_point_calls_unlimited(_, _, _, _)
find_clear_point_calls_unlimited(bounds, blockers_, depth, max_depth) ==
    LET l == bounds[1]
        t == bounds[2]
        r == bounds[3]
        b == bounds[4]
        cx == FloorDiv2(l + r)
        cy == FloorDiv2(t + b)
        area == (r - l) * (b - t)
        me == << [bounds |-> bounds, depth |-> depth] >>
        q1 == find_clear_point_calls_unlimited(<<l, t, cx, cy>>, blockers_, depth + 1, max_depth)
        q2 == find_clear_point_calls_unlimited(<<cx, t, r, cy>>, blockers_, depth + 1, max_depth)
        q3 == find_clear_point_calls_unlimited(<<l, cy, cx, b>>, blockers_, depth + 1, max_depth)
        q4 == find_clear_point_calls_unlimited(<<cx, cy, r, b>>, blockers_, depth + 1, max_depth)
    IN  IF ~is_blocked(blockers_, cx, cy)
        THEN [point |-> Some(<<cx, cy>>), calls |-> me]
        ELSE IF area < MIN_SUBDIVIDE_AREA
        THEN [point |-> None, calls |-> me]
        ELSE IF q1.point # None THEN [point |-> q1.point, calls |-> me \o q1.calls]
        ELSE IF q2.point # None THEN [point |-> q2.point, calls |-> me \o q1.calls \o q2.calls]
        ELSE IF q3.point # None
        THEN [point |-> q3.point, calls |-> me \o q1.calls \o q2.calls \o q3.calls]
        ELSE [point |-> q4.point,
              calls |-> me \o q1.calls \o q2.calls \o q3.calls \o q4.calls]

\* find_clear_point with the calls it makes: the point it returns and, in the
\* order they are entered, the rectangle and depth of the call itself and of
\* every recursive call below it
RECURSIVE find_clear_point_calls(_, _, _, _)
find_clear_point_calls(bounds, blockers_, depth, max_depth) ==
    LET l == bounds[1]
        t == bounds[2]
        r == bounds[3]
        b == bounds[4]
        cx == FloorDiv2(l + r)
        cy == FloorDiv2(t + b)
        area == (r - l) * (b - t)
        me == << [bounds |-> bounds, depth |-> depth] >>
        q1 == find_clear_point_calls(<<l, t, cx, cy>>, blockers_, depth + 1, max_depth)
        q2 == find_clear_point_calls(<<cx, t, r, cy>>, blockers_, depth + 1, max_depth)
        q3 == find_clear_point_calls(<<l, cy, cx, b>>, blockers_, depth + 1, max_depth)
        q4 == find_clear_point_calls(<<cx, cy, r, b>>, blockers_, depth + 1, max_depth)
    IN  IF ~is_blocked(blockers_, cx, cy)
        THEN [point |-> Some(<<cx, cy>>), calls |-> me]
        ELSE IF depth >= max_depth \/ area < MIN_SUBDIVIDE_AREA
        THEN [point |-> None, calls |-> me]
        ELSE IF q1.point # None THEN [point |-> q1.point, calls |-> me \o q1.calls]
        ELSE IF q2.point # None THEN [point |-> q2.point, calls |-> me \o q1.calls \o q2.calls]
        ELSE IF q3.point # None
        THEN [point |-> q3.point, calls |-> me \o q1.calls \o q2.calls \o q3.calls]
        ELSE [point |-> q4.point,
              calls |-> me \o q1.calls \o q2.calls \o q3.calls \o q4.calls]

-----------------------------------------------------------------------------
(* find_clear_point on targets large enough for the depth limit to stop the
   subdivision before the area limit does *)

SubdivideSizes == {7, 10} \cup { 40 * (2 ^ c) : c \in 1..MaxCoord }

SubdivideTargets ==
    { <<l, 0, l + w, h>> : l \in {-40, 0}, w \in SubdivideSizes, h \in SubdivideSizes }

SubdivideBlockers ==
    { <<k, k, 800, 800>> : k \in {-40, 1, 3, 6} }
    \cup { <<-40, -40, 80, 800>>, <<-40, -40, 800, 80>> }

SubdivideLists == UNION { [1..n -> SubdivideBlockers] : n \in 0..MaxBlockers }

InitSubdivide ==
    /\ pc = "call"
    /\ tree = <<>>
    /\ element = <<>>
    /\ args \in [bounds : SubdivideTargets, blockers : SubdivideLists]
    /\ ret = <<>>
    /\ blockers = <<>>
    /\ WaitIdle

\* find_clear_point(bounds, blockers), its result and the calls it made
SubdivideFindClearPoint ==
    /\ pc = "call"
    /\ pc' = "find_clear_point"
    /\ ret' = find_clear_point(args.bounds, args.blockers, 0, DEFAULT_MAX_DEPTH)
    /\ log' = find_clear_point_calls(args.bounds, args.blockers, 0, DEFAULT_MAX_DEPTH)
    /\ UNCHANGED <<tree, element, args, blockers, now, start, elapsed, attempt, output, exit>>

NextSubdivide == SubdivideFindClearPoint

SpecSubdivide == InitSubdivide /\ [][NextSubdivide]_vars

-----------------------------------------------------------------------------
(* The quadrant tree of a target rectangle.  A rectangle of the tree is      *)
(* named by the path of quadrant numbers leading to it from the target:      *)
(* 1 top-left, 2 top-right, 3 bottom-left, 4 bottom-right.                   *)

QuadrantOf(rect, k) ==
    LET cx == FloorDiv2(rect[1] + rect[3])
        cy == FloorDiv2(rect[2] + rect[4])
    IN  CASE k = 1 -> <<rect[1], rect[2], cx, cy>>
          [] k = 2 -> <<cx, rect[2], rect[3], cy>>
          [] k = 3 -> <<rect[1], cy, cx, rect[4]>>
          [] k = 4 -> <<cx, cy, rect[3], rect[4]>>

CenterPoint(rect) == <<FloorDiv2(rect[1] + rect[3]), FloorDiv2(rect[2] + rect[4])>>

CenterBlocked(rect, blockers_) ==
    LET c == CenterPoint(rect)
    IN  \E i \in 1..Len(blockers_) :
            /\ blockers_[i][1] <= c[1] /\ c[1] <= blockers_[i][3]
            /\ blockers_[i][2] <= c[2] /\ c[2] <= blockers_[i][4]

RectArea(rect) == (rect[3] - rect[1]) * (rect[4] - rect[2])

\* the rectangle at depth d is split into its four quadrants
Subdivided(rect, blockers_, d) ==
    /\ CenterBlocked(rect, blockers_)
    /\ d < DEFAULT_MAX_DEPTH
    /\ RectArea(rect) >= MIN_SUBDIVIDE_AREA

\* the rectangles of the quadrant tree from depth d down, given those at
\* depth d: a rectangle that was split contributes its four quadrants
RECURSIVE QuadFrom(_, _, _)
QuadFrom(level, blockers_, d) ==
    IF level = {} THEN {}
    ELSE level \cup
         QuadFrom({ [path |-> Append(n.path, k), rect |-> QuadrantOf(n.rect, k)] :
                      n \in { m \in level : Subdivided(m.rect, blockers_, d) },
                      k \in 1..4 },
                  blockers_, d + 1)

\* the rectangles of the quadrant tree, each with its path from the target
QuadTree(bounds, blockers_) ==
    QuadFrom({ [path |-> <<>>, rect |-> bounds] }, blockers_, 0)

ClearInTree(bounds, blockers_) ==
    { n \in QuadTree(bounds, blockers_) : ~CenterBlocked(n.rect, blockers_) }

\* C21: find_clear_point returns the first unblocked center met in a
\* pre-order walk of the quadrant tree: the center of the current rectangle
\* first; the four quadrants, in the order top-left, top-right, bottom-left,
\* bottom-right, only below a rectangle whose center is blocked, whose depth
\* is below max_depth (default 4) and whose area is at least 100; none when
\* no rectangle of the tree has an unblocked center.
C21_FirstClearCenterInPreOrder ==
    pc = "find_clear_point" =>
        LET clear == ClearInTree(args.bounds, args.blockers)
        IN  IF clear = {}
            THEN ret = None
            ELSE LET first == CHOOSE n \in clear :
                                  \A m \in clear : n = m \/ PathBefore(n.path, m.path)
                 IN  ret = Some(CenterPoint(first.rect))

\* the top-left quadrant is split and yields no point at any depth, and the
\* point is the center of a rectangle at depth max_depth in a later quadrant
C21_Witness ==
    /\ pc = "find_clear_point"
    /\ ret # None
    /\ LET clear == ClearInTree(args.bounds, args.blockers)
       IN  /\ \A n \in clear : Len(n.path) >= 1 /\ n.path[1] # 1
           /\ \E n \in clear : /\ Len(n.path) = DEFAULT_MAX_DEPTH
                               /\ ret = Some(CenterPoint(n.rect))
                               /\ \A m \in clear : n = m \/ PathBefore(n.path, m.path)
           /\ \E n \in QuadTree(args.bounds, args.blockers) :
                  Len(n.path) >= 2 /\ n.path[1] = 1

-----------------------------------------------------------------------------
(* query_tree_with_retry: attempts, sleeps and the way the call ends *)

\* the attempt failed: nothing decodable and truthy came back
FailedAttempt(proc) ==
    LET ran == run_adb(proc, FALSE)
        parsed == parse_content_provider(ran.value, FALSE)
    IN  ~( /\ ran.tag = "return" /\ parsed.tag = "return"
           /\ parsed.value # None /\ TruthyJson(parsed.value[1]) )

\* the properties of the retry loop that hold on every run: at most
\* max_retries attempts, a sleep only between two attempts, and a call that
\* returns gives none exactly when all max_retries attempts failed
RetryLoopShape ==
    /\ log.attempts <= args.max_retries
    /\ log.sleeps <= log.attempts
    /\ pc = "done" => (log.sleeps < log.attempts \/ log.attempts = 0)
    /\ pc = "done" => log.last # "sleep"
    /\ (pc = "done" /\ exit = "return") =>
           (ret = None <=>
               /\ log.attempts = args.max_retries
               /\ (log.attempts > 0 => FailedAttempt(output)))
    /\ (pc = "done" /\ exit = "return" /\ ret # None) => ~FailedAttempt(output)

\* C22 as stated: query_tree_with_retry makes at most max_retries attempts,
\* one after another, stops at the first attempt whose response parses to a
\* non-empty tree and returns it, sleeps only between attempts (never after
\* the last one), never terminates the process on a failed attempt, and
\* returns none if and only if all max_retries attempts failed.
C22_Original ==
    /\ RetryLoopShape
    /\ pc = "done" => exit = "return"

-----------------------------------------------------------------------------
(* run_adb and parse_content_provider of droidutils.py in both modes: a
   caller hands the value of run_adb to parse_content_provider *)

SoftProcResults == FastProcResults \cup RetryProcResults

InitSoft ==
    /\ pc = "run_adb"
    /\ args \in [proc : SoftProcResults, check : BOOLEAN]
    /\ tree = <<>>
    /\ element = <<>>
    /\ ret = <<>>
    /\ blockers = <<>>
    /\ now = 0
    /\ start = 0
    /\ elapsed = 0
    /\ attempt = 0
    /\ output = <<>>
    /\ exit = ""
    /\ log = <<>>

\* output = run_adb([...], check=check)
SoftRunAdb ==
    /\ pc = "run_adb"
    /\ LET res == run_adb(args.proc, args.check)
       IN  /\ output' = res
           /\ IF res.tag = "return"
              THEN pc' = "parse" /\ UNCHANGED exit
              ELSE pc' = "done" /\ exit' = res.tag
    /\ UNCHANGED <<tree, element, args, ret, blockers, now, start, elapsed, attempt, log>>

\* parse_content_provider(output, check=check)
SoftParse ==
    /\ pc = "parse"
    /\ LET res == parse_content_provider(output.value, args.check)
       IN  /\ ret' = res
           /\ exit' = res.tag
    /\ pc' = "done"
    /\ UNCHANGED <<tree, element, args, blockers, now, start, elapsed, attempt, output, log>>

NextSoft == SoftRunAdb \/ SoftParse

SpecSoft == InitSoft /\ [][NextSoft]_vars

\* adb ran and exited with status 0
AdbSucceeded(proc) == proc.kind = "completed" /\ proc.returncode = 0

\* the response is the success envelope around a decodable result
ResponseSucceeded(proc) ==
    /\ AdbSucceeded(proc)
    /\ ~proc.stdout.empty /\ proc.stdout.prefix
    /\ proc.stdout.outer.type = "dict"
    /\ Get(proc.stdout.outer.obj, "status", "") = "success"
    /\ "result" \in DOMAIN proc.stdout.outer.obj
    /\ proc.stdout.outer.obj["result"].type = "str"
    /\ proc.stdout.outer.obj["result"].valid

\* C24 as stated: with check=False, run_adb and parse_content_provider never
\* terminate the process and never raise; for every failure (adb not found,
\* timeout, non-zero exit, empty output, wrong prefix, undecodable or
\* ill-shaped JSON, non-success status, missing result field) they return
\* None, and they return a value only on success.
C24_Original ==
    ~args.check =>
        /\ pc # "run_adb" =>
               /\ output.tag = "return"
               /\ output.value # None <=> AdbSucceeded(args.proc)
        /\ pc = "done" =>
               /\ exit = "return"
               /\ ret.tag = "return"
               /\ ret.value # None <=> ResponseSucceeded(args.proc)

\* the part of C24 that is about run_adb alone
SoftRunAdbReturns ==
    (~args.check /\ pc # "run_adb") =>
        /\ output.tag = "return"
        /\ output.value # None <=> AdbSucceeded(args.proc)

-----------------------------------------------------------------------------
(* The calls of one run of find_clear_point *)

\* the rectangles of a full quadrant tree of depth d: 1 + 4 + ... + 4^d
RECURSIVE FullTreeSize(_)
FullTreeSize(d) == IF d = 0 THEN 1 ELSE 4 ^ d + FullTreeSize(d - 1)

\* call i entered a recursive call: the next call of the run is one level down
Recursed(calls, i) == i < Len(calls) /\ calls[i + 1].depth = calls[i].depth + 1

\* C25 as stated: the recursion depth never exceeds max_depth, a call with
\* the default max_depth of 4 tests at most 341 centers, and no recursive
\* call is made on a rectangle whose area is below 100.
C25_Original ==
    pc = "find_clear_point" =>
        /\ \A i \in 1..Len(log.calls) : log.calls[i].depth <= DEFAULT_MAX_DEPTH
        /\ Len(log.calls) <= 341
        /\ \A i \in 1..Len(log.calls) :
               log.calls[i].depth > 0 => RectArea(log.calls[i].bounds) >= MIN_SUBDIVIDE_AREA

\* C25: find_clear_point returns for every target and blocker list; the
\* recursion depth never exceeds max_depth, a call with the default max_depth
\* of 4 tests at most 341 centers (one per call), and a rectangle whose area
\* is below 100 or whose depth is max_depth is not subdivided: the call on it
\* makes no recursive call.  The quadrants of a rectangle of area >= 100 are
\* called whatever their own area.
C25_BoundedRecursion ==
    pc = "find_clear_point" =>
        /\ log.point = ret
        /\ log.calls[1] = [bounds |-> args.bounds, depth |-> 0]
        /\ \A i \in 1..Len(log.calls) : log.calls[i].depth \in 0..DEFAULT_MAX_DEPTH
        /\ Len(log.calls) <= FullTreeSize(DEFAULT_MAX_DEPTH)
        /\ FullTreeSize(DEFAULT_MAX_DEPTH) = 341
        /\ \A i \in 1..Len(log.calls) :
               Recursed(log.calls, i) =>
                   /\ RectArea(log.calls[i].bounds) >= MIN_SUBDIVIDE_AREA
                   /\ log.calls[i].depth < DEFAULT_MAX_DEPTH
                   /\ CenterBlocked(log.calls[i].bounds, args.blockers)

\* every center of the full tree is tested: 341 calls, the deepest at depth 4
\* on rectangles that the area limit alone would still subdivide, and no point
C25_Witness ==
    /\ pc = "find_clear_point"
    /\ ret = None
    /\ Len(log.calls) = 341
    /\ \E i \in 1..Len(log.calls) :
           /\ log.calls[i].depth = DEFAULT_MAX_DEPTH
           /\ RectArea(log.calls[i].bounds) >= MIN_SUBDIVIDE_AREA

-----------------------------------------------------------------------------
(* format_element on one node that carries any combination of the state
   keys of both tree variants *)

StateKeys ==
    {"isCheckable", "isChecked", "checked", "isEnabled", "enabled",
     "isSelected", "selected", "isFocused", "focused"}

StateBases ==
    { [index |-> 4, text |-> <<"Wi-Fi">>, className |-> <<"android", ".", "widget", ".", "Switch">>,
       bounds |-> <<10, 10, 50, 30>>],
      [className |-> <<"CheckBox">>] }

\* the node with the keys that assignment a gives a value to
StateNode(base, a) ==
    [k \in DOMAIN base \cup { x \in StateKeys : a[x] # None } |->
        IF k \in DOMAIN base THEN base[k] ELSE a[k][1]]

InitStates ==
    /\ pc = "call"
    /\ tree = <<>>
    /\ \E base \in StateBases, a \in [StateKeys -> OptBools] : element = StateNode(base, a)
    /\ args \in [include_state : BOOLEAN]
    /\ ret = <<>>
    /\ blockers = <<>>
    /\ WaitIdle

\* format_element(node, include_state)
CallFormatElement ==
    /\ pc = "call"
    /\ pc' = "format_element"
    /\ output' = format_element(element, args.include_state)
    /\ UNCHANGED <<tree, element, args, ret, blockers, now, start, elapsed, attempt, exit, log>>

NextStates == CallFormatElement

SpecStates == InitStates /\ [][NextStates]_vars

\* the flags of the bracketed list of a formatted line, none without the list
FlagsOf(line) ==
    IF \E i \in 1..Len(line) : line[i].part = "states"
    THEN line[CHOOSE i \in 1..Len(line) : line[i].part = "states"].flags
    ELSE <<>>

FlagRank(flag) ==
    CASE flag \in {"checked=true", "checked=false"} -> 1
      [] flag = "enabled=false" -> 2
      [] flag = "selected=true" -> 3
      [] flag = "focused=true" -> 4
      [] OTHER -> 0

\* the state a node carries: the value under the full key, else the one
\* under the plain key, else none
StateOf(node, full, plain) ==
    IF full \in DOMAIN node THEN Some(node[full])
    ELSE IF plain \in DOMAIN node THEN Some(node[plain])
    ELSE None

\* C26: format_element with include_state surfaces "checked=<value>" if and
\* only if a checked state is present in the node (isChecked, else checked),
\* "enabled=false" if and only if the node is explicitly disabled (enabled
\* state present and false), "selected=true" and "focused=true" only when
\* the respective state is true, in this order; the bracketed list is
\* omitted when no flag is surfaced.
C26_StateFlags ==
    (pc = "format_element" /\ args.include_state) =>
        LET flags == FlagsOf(output)
            shown == { flags[i] : i \in 1..Len(flags) }
            checked == StateOf(element, "isChecked", "checked")
            enabled == StateOf(element, "isEnabled", "enabled")
        IN  /\ "checked=true" \in shown <=> checked = Some(TRUE)
            /\ "checked=false" \in shown <=> checked = Some(FALSE)
            /\ "enabled=false" \in shown <=> enabled = Some(FALSE)
            /\ "selected=true" \in shown <=>
                   (Get(element, "isSelected", FALSE) \/ Get(element, "selected", FALSE))
            /\ "focused=true" \in shown <=>
                   (Get(element, "isFocused", FALSE) \/ Get(element, "focused", FALSE))
            /\ \A i \in 1..Len(flags) : FlagRank(flags[i]) > 0
            /\ \A i, j \in 1..Len(flags) : i < j => FlagRank(flags[i]) < FlagRank(flags[j])
            /\ \A i \in 1..Len(output) :
                   output[i].part = "states" => (i = Len(output) /\ output[i].flags # <<>>)

\* a node that carries checked = false, enabled = false, selected = true and
\* isFocused = true shows all four flags in order; isSelected = false is there too
C26_Witness ==
    /\ pc = "format_element" /\ args.include_state
    /\ DOMAIN element \cap StateKeys = {"checked", "enabled", "isSelected", "selected", "isFocused"}
    /\ ~element["isSelected"]
    /\ output[Len(output)] =
           [part |-> "states",
            flags |-> <<"checked=false", "enabled=false", "selected=true", "focused=true">>]

-----------------------------------------------------------------------------
(* The tap and long-press commands: droid-tap.py, droid-tap-index.py,
   droid-longpress.py and droid-longpress-index.py from the query of the
   snapshot to the input command *)

TapScripts == {"droid-tap", "droid-tap-index", "droid-longpress", "droid-longpress-index"}

\* --duration, default 1500 ms
LONGPRESS_DURATION == 1500

\* time.sleep(0.3) of ensure_screen_awake, in milliseconds
WAKE_SLEEP_MS == 300

\* find_element of droid-tap.py
RECURSIVE tap_find_element(_, _, _)
tap_find_element(nodes, search_text, exact) ==
    IF nodes = <<>>
    THEN None
    ELSE LET node == Head(nodes)
             text == Get(node, "text", <<>>)
             children == Get(node, "children", <<>>)
             found == IF children # <<>>
                      THEN tap_find_element(children, search_text, exact)
                      ELSE None
         IN  IF text # <<>> /\ exact /\ text = search_text
             THEN Some(node)
             ELSE IF text # <<>> /\ ~exact /\ Contains(lower(text), lower(search_text))
             THEN Some(node)
             ELSE IF TruthyDict(found)
             THEN found
             ELSE tap_find_element(Tail(nodes), search_text, exact)

\* center_of of droid-tap.py
tap_center_of(bounds_str) ==
    <<FloorDiv2(bounds_str[1] + bounds_str[3]), FloorDiv2(bounds_str[2] + bounds_str[4])>>

\* query_tree_with_retry(max_retries=1, delay=0, full=full): its one attempt
query_tree_once(proc, full) ==
    LET ran == run_adb(proc, FALSE)
        parsed == parse_content_provider(ran.value, FALSE)
    IN  IF parsed.tag # "return"
        THEN parsed
        ELSE IF parsed.value # None /\ TruthyJson(parsed.value[1])
        THEN Return(Some(retry_result(parsed.value[1], full)))
        ELSE Return(None)

\* the query of the snapshot and its decoding, per command
command_query(script, proc, full) ==
    IF script = "droid-longpress-index"
    THEN LET res == query_tree_once(proc, full)
         IN  IF res.tag = "return" /\ res.value = None
             THEN Exit(1, "Error: failed to query a11y tree")
             ELSE res
    ELSE IF script = "droid-tap"
    THEN LET ran == tap_run_adb(proc)
         IN  IF ran.tag # "return" THEN ran ELSE tap_parse_content_provider(ran.value)
    ELSE LET ran == run_adb(proc, TRUE)
         IN  IF ran.tag # "return" THEN ran ELSE parse_content_provider(ran.value, TRUE)

\* `for node in nodes` on the decoded value: the nodes of a list, nothing for
\* the object without keys, and for an object with keys the keys themselves,
\* on which node.get raises
tree_nodes(v) ==
    IF v.type = "list" THEN Return(v.items)
    ELSE IF v = EmptyObject THEN Return(<<>>)
    ELSE Raise("AttributeError")

\* the lookup of the target, per command
command_find(script, nodes, a) ==
    IF script = "droid-tap" THEN tap_find_element(nodes, a.text, a.exact)
    ELSE IF script = "droid-longpress" THEN find_element(nodes, a.text, a.exact)
    ELSE find_element_by_index(nodes, a.index)

\* an element without bounds is given the point (0, 0)
command_point_origin(script, element_, nodes, a) ==
    IF get_bounds(element_) = <<>> THEN Some(<<0, 0>>) ELSE get_tap_point(element_, <<>>)

\* the tap point, per command: None when the element has no bounds
command_point(script, element_, nodes, a) ==
    IF script = "droid-tap"
    THEN IF Get(element_, "bounds", <<>>) = <<>>
         THEN None
         ELSE Some(tap_center_of(element_["bounds"]))
    ELSE IF script = "droid-tap-index" /\ a.avoid_overlap
    THEN get_tap_point(element_, nodes)
    ELSE get_tap_point(element_, <<>>)

\* the input command of the script at point p
input_event(script, p) ==
    IF script \in {"droid-tap", "droid-tap-index"}
    THEN [kind |-> "tap", x |-> p[1], y |-> p[2]]
    ELSE [kind |-> "swipe", x1 |-> p[1], y1 |-> p[2], x2 |-> p[1], y2 |-> p[2],
          duration |-> LONGPRESS_DURATION]

CommandSnapshots ==
    { <<>>,
      << [index |-> 1, text |-> <<"Login">>] >>,
      << [index |-> 1, className |-> <<"FrameLayout">>, bounds |-> <<0, 0, 100, 100>>,
          children |-> << [index |-> 2, text |-> <<"OK">>, bounds |-> <<10, 10, 50, 30>>] >>],
         [index |-> 3, text |-> <<"ok">>, bounds |-> <<25, 0, 60, 40>>] >> }

CommandValues ==
    { [type |-> "list", items |-> f] : f \in CommandSnapshots }
    \cup { [type |-> "dict", node |-> [text |-> <<"OK">>, bounds |-> <<10, 10, 50, 30>>]],
           EmptyObject }

\* what adb gives for the query: every failing response and the snapshots
CommandProcResults ==
    { r \in RetryProcResults : ~ResponseSucceeded(r) }
    \cup { Envelope(v) : v \in CommandValues }

\* what adb gives for an input command: it prints nothing
InputProcResults ==
    { r \in FastProcResults : r.kind # "completed" \/ r.returncode # 0 \/ r.stdout.empty }

NoTarget ==
    [text |-> <<>>, exact |-> FALSE, index |-> 0, avoid_overlap |-> FALSE,
     ensure_awake |-> FALSE, coords |-> None, full |-> FALSE]

CommandArgs ==
    { [NoTarget EXCEPT !.text = t, !.exact = e] @@ [script |-> "droid-tap"] :
        t \in { <<"ok">>, <<"Login">>, <<"zzz">> }, e \in BOOLEAN }
    \cup { [NoTarget EXCEPT !.index = i, !.avoid_overlap = o] @@ [script |-> "droid-tap-index"] :
             i \in {1, 2, 3, 9}, o \in BOOLEAN }
    \cup { [NoTarget EXCEPT !.text = t, !.exact = e, !.ensure_awake = w]
               @@ [script |-> "droid-longpress"] :
             t \in { <<"ok">>, <<"Login">>, <<"zzz">> }, e \in BOOLEAN, w \in BOOLEAN }
    \cup { [NoTarget EXCEPT !.coords = Some(<<5, 5>>), !.ensure_awake = w]
               @@ [script |-> "droid-longpress"] : w \in BOOLEAN }
    \cup { [NoTarget EXCEPT !.index = i, !.ensure_awake = w, !.full = f]
               @@ [script |-> "droid-longpress-index"] :
             i \in {1, 2, 3, 9}, w \in BOOLEAN, f \in BOOLEAN }

InitCommand ==
    /\ pc = "main"
    /\ args \in CommandArgs
    /\ tree = <<>>
    /\ element = <<>>
    /\ ret = <<>>
    /\ blockers = <<>>
    /\ now = 0
    /\ start = 0
    /\ elapsed = 0
    /\ attempt = 0
    /\ output = <<>>
    /\ exit = ""
    /\ log = [events |-> <<>>, message |-> "", queried |-> FALSE, resolved |-> FALSE,
              pointed |-> FALSE]

\* the command stops: sys.exit(1) after the message, or an uncaught exception
CommandEnds(res) ==
    /\ pc' = "done"
    /\ exit' = IF res.tag = "exit" THEN "exit" ELSE "traceback"
    /\ log' = [log EXCEPT !.message = IF res.tag = "exit" THEN res.message ELSE res.exc]

\* the steps before the query: ensure_screen_awake when asked for (the
\* keyevent reaches adb unless adb is missing), and --coords of droid-longpress
CommandStart ==
    /\ pc = "main"
    /\ LET wake == /\ args.script \in {"droid-longpress", "droid-longpress-index"}
                   /\ args.ensure_awake
       IN  IF wake
           THEN /\ \E proc \in InputProcResults :
                       log' = [log EXCEPT !.events =
                                  IF proc.kind = "FileNotFoundError" THEN @
                                  ELSE Append(@, [kind |-> "keyevent", key |-> "KEYCODE_WAKEUP"])]
                /\ now' = now + WAKE_SLEEP_MS
           ELSE UNCHANGED <<log, now>>
    /\ IF args.coords # None
       THEN pc' = "input" /\ ret' = args.coords
       ELSE pc' = "query" /\ UNCHANGED ret
    /\ UNCHANGED <<tree, element, args, blockers, start, elapsed, attempt, output, exit>>

\* the query of the snapshot and its decoding
CommandQuery ==
    /\ pc = "query"
    /\ \E proc \in CommandProcResults :
           LET res == command_query(args.script, proc, args.full)
           IN  /\ output' = proc
               /\ IF res.tag = "return"
                  THEN /\ tree' = res.value[1]
                       /\ pc' = "find"
                       /\ log' = [log EXCEPT !.queried = TRUE]
                       /\ UNCHANGED exit
                  ELSE /\ CommandEnds(res)
                       /\ UNCHANGED tree
    /\ UNCHANGED <<element, args, ret, blockers, now, start, elapsed, attempt>>

\* the lookup of the target by text or by index
CommandFind ==
    /\ pc = "find"
    /\ LET nodes == tree_nodes(tree)
           found == command_find(args.script, nodes.value, args)
       IN  IF nodes.tag # "return"
           THEN CommandEnds(nodes) /\ UNCHANGED element
           ELSE IF ~TruthyDict(found)
           THEN CommandEnds(Exit(1, "Error: no element found")) /\ UNCHANGED element
           ELSE /\ element' = found[1]
                /\ pc' = "point"
                /\ log' = [log EXCEPT !.resolved = TRUE]
                /\ UNCHANGED exit
    /\ UNCHANGED <<tree, args, ret, blockers, now, start, elapsed, attempt, output>>

\* the tap point of the target
CommandPoint ==
    /\ pc = "point"
    /\ LET tap_point == command_point(args.script, element, tree_nodes(tree).value, args)
       IN  IF tap_point = None
           THEN CommandEnds(Exit(1, "Error: element has no bounds")) /\ UNCHANGED ret
           ELSE /\ ret' = tap_point
                /\ pc' = "input"
                /\ log' = [log EXCEPT !.pointed = TRUE]
                /\ UNCHANGED exit
    /\ UNCHANGED <<tree, element, args, blockers, now, start, elapsed, attempt, output>>

\* run_adb(["shell", "input", "tap" / "swipe", ...]) and the closing print;
\* the input command reaches adb unless adb is missing
CommandInput ==
    /\ pc = "input"
    /\ \E proc \in InputProcResults :
           LET res == IF args.script = "droid-tap" THEN tap_run_adb(proc) ELSE run_adb(proc, TRUE)
               issued == IF proc.kind = "FileNotFoundError" THEN log.events
                         ELSE Append(log.events, input_event(args.script, ret[1]))
           IN  IF res.tag = "return"
               THEN /\ exit' = "ok"
                    /\ log' = [log EXCEPT !.events = issued]
               ELSE /\ exit' = "exit"
                    /\ log' = [log EXCEPT !.events = issued, !.message = res.message]
    /\ pc' = "done"
    /\ UNCHANGED <<tree, element, args, ret, blockers, now, start, elapsed, attempt, output>>

NextCommand == CommandStart \/ CommandQuery \/ CommandFind \/ CommandPoint \/ CommandInput

SpecCommand == InitCommand /\ [][NextCommand]_vars

\* the tap and swipe events among the input events issued so far
TouchEvents == SelectSeq(log.events, LAMBDA e : e.kind \in {"tap", "swipe"})

\* the run is by text or by index: --coords of droid-longpress is not given
ByTextOrIndex == args.coords = None

\* the input event comes after the query, the lookup and the tap point, and
\* a run that reached its end without error issued exactly one, at the point
C23_IssuedAfterAndOnce ==
    ByTextOrIndex =>
        /\ TouchEvents # <<>> =>
               /\ log.queried /\ log.resolved /\ log.pointed
               /\ ResponseSucceeded(output)
               /\ DOMAIN element # {}
               /\ get_bounds(element) # <<>>
               /\ ret[1][1] \in get_bounds(element)[1]..get_bounds(element)[3]
               /\ ret[1][2] \in get_bounds(element)[2]..get_bounds(element)[4]
               /\ TouchEvents = << input_event(args.script, ret[1]) >>
        /\ (pc = "done" /\ exit = "ok") =>
               TouchEvents = << input_event(args.script, ret[1]) >>

\* C23 as stated: in the tap and long-press commands (by text and by index)
\* the input event is issued only after the tree query succeeded, the target
\* was resolved and a tap point was computed; a run that fails (transport
\* error, malformed envelope, target not found, target without bounds)
\* issues no tap/swipe input event, and a successful run issues exactly one
\* at the computed point.
C23_Original ==
    /\ C23_IssuedAfterAndOnce
    /\ (ByTextOrIndex /\ pc = "done" /\ exit # "ok") => TouchEvents = <<>>

\* C23: the same, where the runs that issue no tap/swipe input event are
\* those that fail before the input command (transport error or malformed
\* envelope of the tree query, target not found, target without bounds); a
\* run whose input command itself fails has issued that one event, unless
\* adb is missing.
C23_NoEventBeforeInputStep ==
    /\ C23_IssuedAfterAndOnce
    /\ (ByTextOrIndex /\ pc = "done" /\ ~log.pointed) =>
           /\ exit # "ok"
           /\ TouchEvents = <<>>
    /\ (ByTextOrIndex /\ pc = "done" /\ exit # "ok" /\ log.pointed) =>
           /\ log.message \in { "Error: adb not found", "Error: adb command timed out",
                                "Error: no Android device connected", "Error: adb failed" }
           /\ TouchEvents = <<>> <=> log.message = "Error: adb not found"

\* droid-tap-index --avoid-overlap on element 2, whose center (30,20) a
\* later element covers: the one event is the tap at the clear point (20,15)
C23_Witness ==
    /\ pc = "done" /\ exit = "ok"
    /\ args.script = "droid-tap-index" /\ args.avoid_overlap /\ args.index = 2
    /\ log.queried /\ log.resolved /\ log.pointed
    /\ ret = Some(<<20, 15>>)
    /\ log.events = << [kind |-> "tap", x |-> 20, y |-> 15] >>

=============================================================================
